---- MODULE Spec2Model ----
(***************************************************************************)
(* A model of the RustJni binding layer (src/lib/jni.rs, src/lib/j_chars.rs)*)
(*                                                                         *)
(*  - CodecSpec: JavaChars::new and JavaChars::to_string, the codec between *)
(*    host strings and the runtime's Modified-UTF-8 buffers, computed byte  *)
(*    by byte as the source computes them.                                  *)
(*  - DecodeSpec: JavaChars::from_raw_vec followed by to_string, on         *)
(*    NUL-terminated buffers that no encoder need have produced.            *)
(*  - Spec: the Capability / Exception token protocol of JavaEnv on one     *)
(*    thread: bindings, tokens, handles and the foreign calls they issue.   *)
(*  - BufferSpec: the same thread with handles of direct byte buffers and   *)
(*    of arrays of them among its handles.                                  *)
(*  - ScopeSpec: one binding with its local frames, the local handles made  *)
(*    in them and the monitor guards held on them.                          *)
(*  - ThreadSpec: several threads sharing one runtime through one JavaVM    *)
(*    handle, each with its own bindings.                                   *)
(*  - VmSpec: the thread that made the runtime, the JavaVM handles it holds *)
(*    and the destruction of the runtime.                                   *)
(*  - RegionSpec: JavaEnv::get_string_region on a string of the runtime.    *)
(*  - ArgsSpec: JavaVMInitArgs::default on the options the runtime answers. *)
(*  - CharSpec: a char through set_char_array and get_char_array.           *)
(***************************************************************************)
EXTENDS Integers, Sequences, FiniteSets, Bags, TLC

VARIABLES
    \* ---- codec (src/lib/j_chars.rs) ----
    value,          \* the &str given to JavaChars::new, as its scalar values
    contents,       \* JavaChars.contents, the byte vector
    decoded,        \* the result of to_string on contents
    cpc,            \* "idle" | "start" | "encoded" | "decoded" | "raw_start" | "raw" | "raw_decoded"
    overflowChecks, \* whether the build traps u8 overflow (debug) or wraps
    \* ---- token protocol (src/lib/jni.rs) ----
    attached,       \* the thread is attached to the runtime
    pending,        \* the runtime has a pending exception on the thread
    envs,           \* binding id -> [state, detach], a JavaEnv value
    tokens,         \* the Capability and Exception values alive on the thread
    handles,        \* the bag of live handles, each [env, ptr, rtype]
    calls,          \* the foreign calls the last operation issued, in order
    ret,            \* what the last wrapper handed back to its caller
    panicked,       \* the thread has panicked (assert!, panic!)
    \* ---- local frames and monitors (src/lib/jni.rs) ----
    frames,         \* local frames pushed through the binding and not popped
    locals,         \* slot -> [state, frame, gone], a handle of a local reference;
                    \* gone: the runtime has freed the reference
    guards,         \* the JavaMonitor guards alive, a bag of the slots they borrow
    \* ---- threads sharing a runtime (src/lib/jni.rs) ----
    vms,            \* the bag of live JavaVM handles, each [owned]
    destroyed,      \* DestroyJavaVM has been issued and answered JNI_OK
    tattached,      \* the threads attached to the runtime
    tinitial,       \* the threads attached before any binding was made
    tenvs,          \* the bag of live bindings, each [thread, vm, detach]
    tpending,       \* the threads with a pending exception
    tpanicked,      \* the threads that have panicked
    tcalls,         \* the foreign calls the last operation issued, with their thread
    ttokens,        \* thread -> the Capability and Exception values it holds
    taborted,       \* the process has aborted: no thread runs any more
    \* ---- values that cross the boundary (src/lib/jni.rs) ----
    jstring,        \* the UTF-16 code units of a string of the runtime
    region,         \* [start, length], the arguments of get_string_region
    written,        \* the bytes GetStringUTFRegion wrote from the buffer's start on
    initArgs,       \* what JavaVMInitArgs::default returned: [kind, code, options]
    unit,           \* the jchar SetCharArrayRegion was given
    charBack        \* what get_char_array returned: [kind, char]

sideVars == <<jstring, region, written, initArgs, unit, charBack>>
codecVars == <<value, contents, decoded, cpc, overflowChecks, sideVars>>
protoVars == <<attached, pending, envs, tokens, handles, calls, ret, panicked>>
scopeVars == <<frames, locals, guards>>
threadVars == <<vms, destroyed, tattached, tinitial, tenvs, tpending, tpanicked, tcalls,
                ttokens, taborted>>
extVars == <<scopeVars, threadVars>>
vars == <<value, contents, decoded, cpc, overflowChecks,
          attached, pending, envs, tokens, handles, calls, ret, panicked,
          frames, locals, guards,
          vms, destroyed, tattached, tinitial, tenvs, tpending, tpanicked, tcalls,
          ttokens, taborted,
          jstring, region, written, initArgs, unit, charBack>>

-----------------------------------------------------------------------------
(* Bounds *)

\* longest host string given to JavaChars::new
MaxLen == 2

\* every scalar value up to this one is also tried as a one-char string
MaxDense == 65535

\* longest arbitrary byte string given to JavaChars::from_raw_vec
MaxBufLen == 2

\* bindings (JavaEnv values) one thread creates in a run
MaxEnvs == 2

\* Capability and Exception tokens the caller holds at one time
MaxTokens == 2

\* handles (JavaObject, JavaClass, JavaString, ...) alive at one time
MaxHandles == 2

\* local frames pushed and not yet popped
MaxFrames == 2

\* handles of local references alive at one time in the frame machine
MaxLocals == 2

\* threads that share the runtime
MaxThreads == 2

\* JavaVM handles alive at one time
MaxVms == 2

\* longest string of the runtime given to get_string_region
MaxRegionLen == 2

\* most options the runtime answers to JNI_GetDefaultJavaVMInitArgs
MaxOptions == 2

\* every char up to this one goes through set_char_array
MaxCharDense == 100

\* bindings alive at one time over all threads
MaxBindings == 2

-----------------------------------------------------------------------------
(* u8 / i32 arithmetic as Rust computes it *)

RECURSIVE BitAnd(_, _)
BitAnd(a, b) ==
    IF a = 0 \/ b = 0 THEN 0
    ELSE (a % 2) * (b % 2) + 2 * BitAnd(a \div 2, b \div 2)

RECURSIVE BitOr(_, _)
BitOr(a, b) ==
    IF a = 0 THEN b
    ELSE IF b = 0 THEN a
    ELSE (IF (a % 2) + (b % 2) > 0 THEN 1 ELSE 0) + 2 * BitOr(a \div 2, b \div 2)

Shr(a, n) == a \div (2 ^ n)

\* `x as u8` truncates to the low eight bits
AsU8(x) == x % 256

\* u8 << n drops the bits shifted out
ShlU8(a, n) == (a * (2 ^ n)) % 256

-----------------------------------------------------------------------------
(* Host strings *)

\* Rust's char: a Unicode scalar value, never a surrogate
IsChar(v) == v \in 0..1114111 /\ ~(v \in 55296..57343)

\* the UTF-8 bytes of one char, which is how a Rust str / String holds it
Utf8Char(v) ==
    IF v < 128 THEN <<v>>
    ELSE IF v < 2048 THEN <<192 + (v \div 64), 128 + (v % 64)>>
    ELSE IF v < 65536 THEN
        <<224 + (v \div 4096), 128 + ((v \div 64) % 64), 128 + (v % 64)>>
    ELSE <<240 + (v \div 262144), 128 + ((v \div 4096) % 64),
           128 + ((v \div 64) % 64), 128 + (v % 64)>>

RECURSIVE Utf8Str(_)
Utf8Str(s) == IF s = <<>> THEN <<>> ELSE Utf8Char(Head(s)) \o Utf8Str(Tail(s))

-----------------------------------------------------------------------------
(* JavaChars::new *)

\* '\u{10000}' ... '\u{10FFFF}' => seven pushes
SupplementaryArm(j) ==
    LET subchar == j - 65536 IN
    << \hED,
       BitOr(\hA0, AsU8(Shr(subchar, 16))),
       BitOr(\h80, AsU8(BitAnd(\h3F, Shr(subchar, 10)))),
       \hED,
       \hED,
       BitOr(\hA0, AsU8(BitAnd(\h0F, Shr(subchar, 6)))),
       BitOr(\h80, AsU8(BitAnd(\h3F, subchar))) >>

\* the two-byte arm with the shift of the lead byte off by one
TwoByteArmShift5(j) ==
    << BitOr(\hC0, AsU8(Shr(j, 5))), BitOr(\h80, AsU8(BitAnd(\h3F, j))) >>

\* '\0' | '\u{80}' ... '\u{7FF}' => two pushes
TwoByteArm(j) ==
    << BitOr(\hC0, AsU8(Shr(j, 6))), BitOr(\h80, AsU8(BitAnd(\h3F, j))) >>

\* '\u{800}' ... '\u{FFFF}' => three pushes
ThreeByteArm(j) ==
    << BitOr(\hE0, AsU8(Shr(j, 12))),
       BitOr(\h80, AsU8(BitAnd(\h3F, Shr(j, 6)))),
       BitOr(\h80, AsU8(BitAnd(\h3F, j))) >>

\* the match with '\0' falling into the one-byte arm
EncodeCharNulAsByte(i) ==
    IF i <= 127 THEN <<AsU8(i)>>
    ELSE IF i <= 2047 THEN TwoByteArm(i)
    ELSE IF i <= 65535 THEN ThreeByteArm(i)
    ELSE SupplementaryArm(i)

\* the body of `for i in value.chars()`: the bytes pushed for one char
EncodeChar(i) ==
    IF i = 0 \/ (i >= 128 /\ i <= 2047) THEN TwoByteArm(i)
    ELSE IF i >= 1 /\ i <= 127 THEN <<AsU8(i)>>
    ELSE IF i >= 2048 /\ i <= 65535 THEN ThreeByteArm(i)
    ELSE SupplementaryArm(i)

RECURSIVE EncodeChars(_)
EncodeChars(s) ==
    IF s = <<>> THEN <<>> ELSE EncodeChar(Head(s)) \o EncodeChars(Tail(s))

\* JavaChars::new without the final push of the terminator
JavaCharsNewNoTerminator(s) == EncodeChars(s)

\* JavaChars::new(value).contents
JavaCharsNew(s) == EncodeChars(s) \o <<0>>

-----------------------------------------------------------------------------
(* JavaChars::to_string *)

\* Option<String>, the String held as its bytes; Panic is the thread aborting
Some(a) == [kind |-> "Some", bytes |-> a]
None == [kind |-> "None", bytes |-> <<>>]
Panic == [kind |-> "Panic", bytes |-> <<>>]

\* self.contents[k] is in bounds; out of bounds the index panics
InBounds(c, k) == k < Len(c)
At(c, k) == c[k + 1]

\* high_byte = 0xF1 + (next_char >> 2), before it is stored in a u8
HighByteSum(next_char) == \hF1 + Shr(next_char, 2)

\* the test that lets every surrogate group through
InvalidSurrogateNever(next_char) == FALSE

\* if next_char & 0x10 != 0 { return None }   // Invalid surrogate
InvalidSurrogate(next_char) == BitAnd(next_char, \h10) # 0

\* the loop of to_string from `counter` on, `a` being the bytes pushed so far
RECURSIVE ToStringLoop(_, _, _, _)
ToStringLoop(c, counter, a, checked) ==
    IF ~InBounds(c, counter) THEN Panic
    ELSE
    LET i == At(c, counter)
        k == counter + 1
    IN
    IF i = 0 THEN Some(a)
    ELSE IF i >= 1 /\ i <= \h7F THEN ToStringLoop(c, k, a \o <<i>>, checked)
    ELSE IF i = \hC0 THEN
        IF ~InBounds(c, k) THEN Panic
        ELSE LET j == At(c, k) IN
             IF j = \h80 THEN ToStringLoop(c, k + 1, a \o <<0>>, checked)
             ELSE ToStringLoop(c, k + 1, a \o <<i, j>>, checked)
    ELSE IF i >= \hC1 /\ i <= \hDF THEN
        IF ~InBounds(c, k) THEN Panic
        ELSE ToStringLoop(c, k + 1, a \o <<i, At(c, k)>>, checked)
    ELSE IF i = \hED THEN
        IF ~InBounds(c, k) THEN Panic
        ELSE
        LET next_char == At(c, k) IN
        IF BitAnd(next_char, \hE0) = \hA0 THEN
            IF InvalidSurrogate(next_char) THEN None
            ELSE IF HighByteSum(next_char) > 255 /\ checked THEN Panic
            ELSE
            LET high_byte == AsU8(HighByteSum(next_char)) IN
            IF ~InBounds(c, k + 1) THEN Panic
            ELSE
            LET next_char2 == BitAnd(At(c, k + 1), \h0F)
                second_byte == BitOr(BitOr(Shr(next_char2, 2),
                                           ShlU8(BitAnd(high_byte, 3), 4)), \h80)
            IN
            IF ~InBounds(c, k + 2) THEN Panic
            ELSE IF At(c, k + 2) # \hED THEN None
            ELSE IF ~InBounds(c, k + 3) THEN Panic
            ELSE
            LET next_char3 == BitOr(\h3F, At(c, k + 3)) IN
            IF BitAnd(next_char3, \hF0) # \hB0 THEN None
            ELSE
            LET third_byte == BitOr(next_char3, ShlU8(BitAnd(next_char2, 3), 4)) IN
            IF ~InBounds(c, k + 4) THEN Panic
            ELSE ToStringLoop(c, k + 5,
                              a \o <<high_byte, second_byte, third_byte, At(c, k + 4)>>,
                              checked)
        ELSE
            IF ~InBounds(c, k + 1) THEN Panic
            ELSE ToStringLoop(c, k + 2, a \o <<i, next_char, At(c, k + 1)>>, checked)
    ELSE IF i >= \hE0 /\ i <= \hEF THEN
        IF ~InBounds(c, k) \/ ~InBounds(c, k + 1) THEN Panic
        ELSE ToStringLoop(c, k + 2, a \o <<i, At(c, k), At(c, k + 1)>>, checked)
    ELSE Panic

\* JavaChars::to_string(&self)
JavaCharsToString(c, checked) == ToStringLoop(c, 0, <<>>, checked)

-----------------------------------------------------------------------------
(* The token protocol: state *)

\* jobject results of a foreign call: NULL and a non-null reference
ForeignPtrs == {0, 1}

NoEnv == [state |-> "none", detach |-> FALSE]
\* `buf` tells a JavaDirectByteBuffer from the handle types of impl_jobject!
\* and JavaArray, `bufs` a JavaArray<JavaDirectByteBuffer> from the others
NoHandle == [env |-> 0, ptr |-> 0, rtype |-> "None", buf |-> FALSE, bufs |-> FALSE]
NoTokens == [caps |-> 0, excs |-> 0]
NoRet == [op |-> "none", kind |-> "none", handle |-> NoHandle, caps |-> 0, excs |-> 0,
          code |-> "none"]

AliveEnvs == {e \in DOMAIN envs : envs[e].state = "alive"}
FreeEnvs == {e \in DOMAIN envs : envs[e].state = "none"}
LiveHandles == BagToSet(handles)
HandlesOf(e) == {h \in LiveHandles : h.env = e}

\* the bound on live handles leaves room for one more
RoomForHandle == BagCardinality(handles) < MaxHandles

\* the thread runs and its last operation's result has been taken
Ready == ~panicked /\ ret.op = "none"

\* the slot a new value takes
FirstOf(S) == CHOOSE x \in S : \A y \in S : x <= y

\* one foreign call: the function, whether an exception was pending on the
\* thread when it was issued, and what the runtime answered (an error code or
\* truth value in `code`, a jobject in `ptr`)
Call(fn, p, code, ptr) == [fn |-> fn, pending |-> p, code |-> code, ptr |-> ptr]

\* foreign functions whose wrappers ask for no token
TokenFreeFns ==
    { "GetEnv", "AttachCurrentThread", "AttachCurrentThreadAsDaemon",
      "ExceptionCheck", "ExceptionOccurred", "GetJavaVM", "DetachCurrentThread",
      "FatalError", "JNI_CreateJavaVM", "JNI_GetCreatedJavaVMs",
      "JNI_GetDefaultJavaVMInitArgs", "DestroyJavaVM" }

\* foreign functions whose wrappers ask for an Exception token
ExceptionFns == { "ExceptionDescribe", "ExceptionClear" }

\* foreign functions whose wrappers ask for a Capability, owned or borrowed
Sensitive(fn) == fn \notin TokenFreeFns /\ fn \notin ExceptionFns

\* wrappers that take the Capability by value around a call that can raise
MayThrowOps ==
    { "define_class", "find_class", "alloc_object", "new_string",
      "new_object_array", "new_array", "get_object_array", "set_object_array",
      "get_array", "set_array", "get_string_region", "get_string_unicode_region",
      "local", "global", "weak", "throw", "throw_new",
      "push_local_frame", "ensure_local_capacity",
      "new_direct_byte_buffer", "object_new_array", "as_jobject" }

\* wrappers that hand back a handle built from the pointer the call returned
HandleOps ==
    { "define_class", "find_class", "alloc_object", "new_string",
      "new_object_array", "object_new_array", "new_array", "get_object_array",
      "local", "global", "weak", "as_jobject", "new_direct_byte_buffer" }

\* no to_string has run
NoResult == [kind |-> "NotRun", bytes |-> <<>>]

\* nothing has crossed the boundary
SideIdle ==
    /\ jstring = <<>>
    /\ region = [start |-> 0, length |-> 0]
    /\ written = <<>>
    /\ initArgs = [kind |-> "NotRun", code |-> "none", options |-> <<>>]
    /\ unit = 0
    /\ charBack = [kind |-> "NotRun", char |-> 0]

\* the codec is not running
CodecIdle ==
    /\ value = <<>>
    /\ contents = <<>>
    /\ decoded = NoResult
    /\ cpc = "idle"
    /\ overflowChecks = FALSE
    /\ SideIdle

\* a slot of `locals` that holds no handle
NoLocal == [state |-> "none", frame |-> 0, gone |-> FALSE]

\* no frame was pushed, no local handle and no monitor guard is alive
ScopeIdle ==
    /\ frames = 0
    /\ locals = [i \in 1..MaxLocals |-> NoLocal]
    /\ guards = EmptyBag

\* no runtime is shared between threads
ThreadIdle ==
    /\ vms = EmptyBag
    /\ destroyed = FALSE
    /\ tattached = {}
    /\ tinitial = {}
    /\ tenvs = EmptyBag
    /\ tpending = {}
    /\ tpanicked = {}
    /\ tcalls = <<>>
    /\ ttokens = [t \in 1..MaxThreads |-> NoTokens]
    /\ taborted = FALSE

\* the token protocol is not running: no binding, no token, no handle
ProtoIdle ==
    /\ pending = FALSE
    /\ envs = [e \in 1..MaxEnvs |-> NoEnv]
    /\ tokens = NoTokens
    /\ handles = EmptyBag
    /\ calls = <<>>
    /\ ret = NoRet
    /\ panicked = FALSE

\* a thread of a process whose runtime exists: the thread that created the
\* runtime is attached, any other thread is not
Init ==
    /\ attached \in BOOLEAN
    /\ ProtoIdle
    /\ CodecIdle
    /\ ScopeIdle
    /\ ThreadIdle

\* the tokens after a wrapper took `taken` Capabilities and returned r
Settle(taken, r) ==
    [caps |-> tokens.caps - taken + r.caps, excs |-> tokens.excs + r.excs]

Return(op, r) ==
    [op |-> op, kind |-> r.kind, handle |-> r.handle, caps |-> r.caps, excs |-> r.excs,
     code |-> r.code]

-----------------------------------------------------------------------------
(* The codec as a state machine: new, then to_string *)

\* scalar values at the edges of every arm of the encoder and the decoder
SampleChars ==
    { 0, 1, 65, 127, 128, 2047, 2048, 53248, 55295, 57344, 65535,
      65536, 66560, 1114111 }

Strings(n) == UNION { [1..m -> SampleChars] : m \in 0..n }

\* the strings JavaChars::new is given: every string of sample chars up to
\* MaxLen, and every one-char string up to MaxDense (a str holds no surrogate)
Inputs == Strings(MaxLen) \cup { <<v>> : v \in { w \in 0..MaxDense : IsChar(w) } }

CodecInit ==
    /\ value \in Inputs
    /\ overflowChecks \in BOOLEAN
    /\ contents = <<>>
    /\ decoded = NoResult
    /\ cpc = "start"
    /\ attached = FALSE
    /\ ProtoIdle
    /\ ScopeIdle
    /\ ThreadIdle
    /\ SideIdle

\* let chars = JavaChars::new(value)
New ==
    /\ cpc = "start"
    /\ contents' = JavaCharsNew(value)
    /\ cpc' = "encoded"
    /\ UNCHANGED <<value, decoded, overflowChecks, sideVars>>
    /\ UNCHANGED <<protoVars, extVars>>

\* chars.to_string()
ToStringCall ==
    /\ cpc = "encoded"
    /\ decoded' = JavaCharsToString(contents, overflowChecks)
    /\ cpc' = "decoded"
    /\ UNCHANGED <<value, contents, overflowChecks, sideVars>>
    /\ UNCHANGED <<protoVars, extVars>>

CodecNext == New \/ ToStringCall

CodecSpec == CodecInit /\ [][CodecNext]_vars

-----------------------------------------------------------------------------
(* The decoder on buffers the runtime hands over: from_raw_vec, then to_string *)

\* bytes at the edges of every arm of to_string
SampleBytes ==
    { \h01, \h41, \h7F, \h80, \hA0, \hAF, \hB0, \hBF, \hC0, \hC1, \hC2,
      \hDF, \hE0, \hED, \hEF, \hF0, \hFF }

\* byte strings of sample bytes up to length n
ByteStrings(n) == UNION { [1..m -> SampleBytes] : m \in 0..n }

\* buffers shaped as a surrogate pair, ED b2 b3 b4 b5 b6, well formed or broken
\* in one or more positions
PairShaped ==
    { << \hED, b2, b3, b4, b5, b6 >> :
        b2 \in { \hA0, \hA5, \hAF, \hB0 }, b3 \in { \h80, \hBF },
        b4 \in { \hED, \hE0, \h41 },
        b5 \in { \h80, \hAF, \hB0, \hBF, \hC0, \h41 }, b6 \in { \h80, \hBF } }

\* every prefix of every pair-shaped buffer
PairPrefixes == { SubSeq(p, 1, n) : p \in PairShaped, n \in 0..6 }

\* the bodies of the buffers given to from_raw_vec; each is NUL-terminated
Bodies == ByteStrings(MaxBufLen) \cup PairPrefixes

Buffers == { b \o <<0>> : b \in Bodies }

DecodeInit ==
    /\ value = <<>>
    /\ overflowChecks \in BOOLEAN
    /\ contents = <<>>
    /\ decoded = NoResult
    /\ cpc = "raw_start"
    /\ attached = FALSE
    /\ ProtoIdle
    /\ ScopeIdle
    /\ ThreadIdle
    /\ SideIdle

\* let chars = JavaChars::from_raw_vec(data)
FromRawVec ==
    /\ cpc = "raw_start"
    /\ \E data \in Buffers : contents' = data
    /\ cpc' = "raw"
    /\ UNCHANGED <<value, decoded, overflowChecks, sideVars>>
    /\ UNCHANGED <<protoVars, extVars>>

\* chars.to_string() on a buffer that came from from_raw_vec
ToStringRaw ==
    /\ cpc = "raw"
    /\ decoded' = JavaCharsToString(contents, overflowChecks)
    /\ cpc' = "raw_decoded"
    /\ UNCHANGED <<value, contents, overflowChecks, sideVars>>
    /\ UNCHANGED <<protoVars, extVars>>

DecodeNext == FromRawVec \/ ToStringRaw

DecodeSpec == DecodeInit /\ [][DecodeNext]_vars

-----------------------------------------------------------------------------
(* What the wrappers build from the foreign call's answer *)

\* what a wrapper hands back: the kind of value, the handle and the tokens in
\* it, and the JniError an Err carries ("none" where it carries none)
OkCap == [kind |-> "Ok", handle |-> NoHandle, caps |-> 1, excs |-> 0, code |-> "none"]
ErrExc == [kind |-> "Err", handle |-> NoHandle, caps |-> 0, excs |-> 1, code |-> "none"]
\* Err(err): the code the foreign call answered, and no token
ErrCode(err) == [kind |-> "Err", handle |-> NoHandle, caps |-> 0, excs |-> 0, code |-> err]
Unit == [kind |-> "Unit", handle |-> NoHandle, caps |-> 0, excs |-> 0, code |-> "none"]

\* the wrapper without the test for a null pointer
JniResultNoNullCheck(e, r, rtype) ==
    [kind |-> "Ok", handle |-> [env |-> e, ptr |-> r, rtype |-> rtype, buf |-> FALSE,
                          bufs |-> FALSE],
     caps |-> 1, excs |-> 0, code |-> "none"]

\* if r == 0 { Err(Exception::new()) }
\* else { Ok((JObject::from_unsafe_type(env, r, rtype), Capability::new())) }
JniResult(e, r, rtype) ==
    IF r = 0 THEN ErrExc
    ELSE [kind |-> "Ok", handle |-> [env |-> e, ptr |-> r, rtype |-> rtype, buf |-> FALSE,
                          bufs |-> FALSE],
          caps |-> 1, excs |-> 0, code |-> "none"]

\* handles with the handle a wrapper returned, if it returned one
WithHandle(r) ==
    IF r.handle.rtype = "None" THEN handles
    ELSE handles (+) SetToBag({r.handle})

-----------------------------------------------------------------------------
(* What the runtime may answer *)

\* a call that answers NULL exactly when it raises
ThrowsOnNull == { [ptr |-> 1, raised |-> FALSE], [ptr |-> 0, raised |-> TRUE] }

\* a call that may also answer NULL without raising (a null array element,
\* NewLocalRef / NewGlobalRef out of memory)
MayBeNull == ThrowsOnNull \cup { [ptr |-> 0, raised |-> FALSE] }

\* GetEnv: OK on an attached thread, EDETACHED on a detached one, or a refusal
GetEnvAnswers == (IF attached THEN {"JNI_OK"} ELSE {"JNI_EDETACHED"}) \cup {"JNI_EVERSION"}

ErrorCodes == {"JNI_OK", "JNI_ERR"}

-----------------------------------------------------------------------------
(* JavaVM::get_env, get_env_daemon *)

\* the code of GetEnv returned for a failed attach call
AttachErrOuter(res, ares) == res

\* JniError::JNI_EDETACHED => { let res = fun(..); match res { .. _ => Err(res) } }:
\* the res of the attach call shadows the res of GetEnv
AttachErr(res, ares) == ares

\* a binding that never owes detachment
NewEnvNeverDetach(detach) == [state |-> "alive", detach |-> FALSE]

\* JavaEnv{ ptr: &mut *env, jvm: self, detach: detach }
NewEnv(detach) == [state |-> "alive", detach |-> detach]

\* JavaVM::get_env_gen(fun)
GetEnvGen(op, fun) ==
    /\ Ready
    /\ FreeEnvs # {}
    /\ tokens.caps + tokens.excs < MaxTokens
    /\ \E res \in GetEnvAnswers :
        IF res = "JNI_OK" THEN
            /\ envs' = [envs EXCEPT ![FirstOf(FreeEnvs)] = NewEnv(FALSE)]
            /\ tokens' = Settle(0, OkCap)
            /\ calls' = <<Call("GetEnv", pending, res, 0)>>
            /\ ret' = Return(op, OkCap)
            /\ UNCHANGED attached
        ELSE IF res = "JNI_EDETACHED" THEN
            \E ares \in ErrorCodes :
                /\ calls' = <<Call("GetEnv", pending, res, 0),
                              Call(fun, pending, ares, 0)>>
                /\ IF ares = "JNI_OK" THEN
                       /\ envs' = [envs EXCEPT ![FirstOf(FreeEnvs)] = NewEnv(TRUE)]
                       /\ attached' = TRUE
                       /\ tokens' = Settle(0, OkCap)
                       /\ ret' = Return(op, OkCap)
                   ELSE
                       /\ ret' = Return(op, ErrCode(AttachErr(res, ares)))
                       /\ UNCHANGED <<envs, attached, tokens>>
        ELSE
            /\ calls' = <<Call("GetEnv", pending, res, 0)>>
            /\ ret' = Return(op, ErrCode(res))
            /\ UNCHANGED <<envs, attached, tokens>>
    /\ UNCHANGED <<pending, handles, panicked>>
    /\ UNCHANGED <<codecVars, extVars>>

GetEnv == GetEnvGen("get_env", "AttachCurrentThread")

GetEnvDaemon == GetEnvGen("get_env_daemon", "AttachCurrentThreadAsDaemon")

-----------------------------------------------------------------------------
(* Exception inspection *)

\* exception_check answering Ok(Capability) whatever the runtime says
CheckResultAlwaysOk(ex) == OkCap

\* if ex { Err(Exception::new()) } else { Ok(Capability::new()) }
CheckResult(ex) == IF ex THEN ErrExc ELSE OkCap

\* JavaEnv::exception_check(&self)
ExceptionCheck ==
    /\ Ready
    /\ AliveEnvs # {}
    /\ tokens.caps + tokens.excs < MaxTokens
    /\ LET r == CheckResult(pending) IN
        /\ tokens' = Settle(0, r)
        /\ ret' = Return("exception_check", r)
    /\ calls' = <<Call("ExceptionCheck", pending,
                       IF pending THEN "JNI_TRUE" ELSE "JNI_FALSE", 0)>>
    /\ UNCHANGED <<attached, pending, envs, handles, panicked>>
    /\ UNCHANGED <<codecVars, extVars>>

\* JavaEnv::exception_occured(&self)
ExceptionOccured ==
    /\ Ready
    /\ tokens.caps + tokens.excs < MaxTokens
    /\ RoomForHandle
    /\ \E e \in AliveEnvs :
        LET obj == IF pending THEN 1 ELSE 0
            r == IF obj = 0 THEN OkCap
                 ELSE [kind |-> "Err",
                       handle |-> [env |-> e, ptr |-> obj, rtype |-> "Local",
                                   buf |-> FALSE, bufs |-> FALSE],
                       caps |-> 0, excs |-> 1, code |-> "none"]
        IN
        /\ calls' = <<Call("ExceptionOccurred", pending, "ptr", obj)>>
        /\ tokens' = Settle(0, r)
        /\ handles' = WithHandle(r)
        /\ ret' = Return("exception_occured", r)
    /\ UNCHANGED <<attached, pending, envs, panicked>>
    /\ UNCHANGED <<codecVars, extVars>>

\* JavaEnv::exception_describe(&self, _exn: &Exception); a runtime may clear
\* the exception it prints (HotSpot does), the Exception token stays
ExceptionDescribe ==
    /\ Ready
    /\ AliveEnvs # {}
    /\ tokens.excs > 0
    /\ calls' = <<Call("ExceptionDescribe", pending, "void", 0)>>
    /\ \E clears \in BOOLEAN : pending' = (pending /\ ~clears)
    /\ ret' = Return("exception_describe", Unit)
    /\ UNCHANGED <<attached, envs, tokens, handles, panicked>>
    /\ UNCHANGED <<codecVars, extVars>>

\* JavaEnv::exception_clear(&self, exn: Exception) -> Capability
ExceptionClear ==
    /\ Ready
    /\ AliveEnvs # {}
    /\ tokens.excs > 0
    /\ calls' = <<Call("ExceptionClear", pending, "void", 0)>>
    /\ pending' = FALSE
    /\ tokens' = [caps |-> tokens.caps + 1, excs |-> tokens.excs - 1]
    /\ ret' = Return("exception_clear", OkCap)
    /\ UNCHANGED <<attached, envs, handles, panicked>>
    /\ UNCHANGED <<codecVars, extVars>>

-----------------------------------------------------------------------------
(* Wrappers that take the Capability by value *)

OkExc == [kind |-> "Ok", handle |-> NoHandle, caps |-> 0, excs |-> 1, code |-> "none"]

\* a wrapper that builds a handle from the jobject the call returns;
\* on the receiver; `args` says whether it is given a handle
HandleCall(op, fn, rtype, outcomes, args) ==
    /\ Ready
    /\ tokens.caps > 0
    /\ RoomForHandle
    /\ args => LiveHandles # {}
    /\ \E e \in AliveEnvs :
        /\ \E o \in outcomes :
            LET r == JniResult(e, o.ptr, rtype) IN
            /\ calls' = <<Call(fn, pending, "ptr", o.ptr)>>
            /\ pending' = (pending \/ o.raised)
            /\ tokens' = Settle(1, r)
            /\ handles' = WithHandle(r)
            /\ ret' = Return(op, r)
    /\ UNCHANGED <<attached, envs, panicked>>
    /\ UNCHANGED <<codecVars, extVars>>

\* JavaEnv::define_class
DefineClass == HandleCall("define_class", "DefineClass", "Local", ThrowsOnNull, TRUE)

\* JavaEnv::find_class
FindClass == HandleCall("find_class", "FindClass", "Local", ThrowsOnNull, FALSE)

\* JavaEnv::alloc_object
AllocObject == HandleCall("alloc_object", "AllocObject", "Local", ThrowsOnNull, TRUE)

\* JavaEnv::new_string
NewString == HandleCall("new_string", "NewStringUTF", "Local", ThrowsOnNull, FALSE)

\* JavaEnv::new_object_array(&'a self, len, cls, obj: &T, cap): a
\* JavaArray<'a, T> on the receiver, whose elements have the type of obj
NewObjectArray ==
    /\ Ready
    /\ tokens.caps > 0
    /\ RoomForHandle
    /\ \E e \in AliveEnvs, h \in LiveHandles, o \in ThrowsOnNull :
        LET made == JniResult(e, o.ptr, "Local")
            r == IF made.kind = "Ok"
                 THEN [made EXCEPT !.handle.bufs = h.buf] ELSE made
        IN
        /\ calls' = <<Call("NewObjectArray", pending, "ptr", o.ptr)>>
        /\ pending' = (pending \/ o.raised)
        /\ tokens' = Settle(1, r)
        /\ handles' = WithHandle(r)
        /\ ret' = Return("new_object_array", r)
    /\ UNCHANGED <<attached, envs, panicked>>
    /\ UNCHANGED <<codecVars, extVars>>

\* JArrayElem::new_array of the handle types (impl_jobject!,
\* JavaDirectByteBuffer), behind JavaArray::new: get_class on the element h,
\* new_object_array on the binding e handed in, then the class handle goes out of scope. A panic in that
\* drop finds the array handle new_object_array returned still unreturned: it
\* is leaked, or its own drop panics while unwinding
ObjectNewArray ==
    /\ Ready
    /\ tokens.caps > 0
    /\ RoomForHandle
    /\ \E e \in AliveEnvs, h \in LiveHandles, cls \in ForeignPtrs, o \in ThrowsOnNull,
          leaked \in BOOLEAN :
        LET after == pending \/ o.raised
            made == JniResult(e, o.ptr, "Local")
            r == IF made.kind = "Ok"
                 THEN [made EXCEPT !.handle.bufs = h.buf] ELSE made
            class == Call("GetObjectClass", pending, "ptr", cls)
            array == Call("NewObjectArray", pending, "ptr", o.ptr)
        IN
        IF cls = 0 THEN
            /\ calls' = <<class>>
            /\ tokens' = Settle(1, Unit)
            /\ panicked' = TRUE
            /\ ret' = Return("object_new_array", [Unit EXCEPT !.kind = "Panic"])
            /\ UNCHANGED <<pending, handles>>
        ELSE IF CheckResult(after).kind = "Err" THEN
            /\ calls' = <<class, array, Call("ExceptionCheck", after, "JNI_TRUE", 0)>>
                         \o (IF r.kind = "Ok" /\ ~leaked
                             THEN <<Call("ExceptionCheck", after, "JNI_TRUE", 0)>>
                             ELSE <<>>)
            /\ pending' = after
            /\ tokens' = Settle(1, Unit)
            /\ panicked' = TRUE
            /\ ret' = Return("object_new_array",
                             [Unit EXCEPT !.kind = IF r.kind = "Ok" /\ ~leaked
                                                   THEN "Abort" ELSE "Panic"])
            /\ UNCHANGED handles
        ELSE
            /\ calls' = <<class, array, Call("ExceptionCheck", after, "JNI_FALSE", 0),
                          Call("DeleteLocalRef", after, "void", 0)>>
            /\ pending' = after
            /\ tokens' = Settle(1, r)
            /\ handles' = WithHandle(r)
            /\ ret' = Return("object_new_array", r)
            /\ UNCHANGED panicked
    /\ UNCHANGED <<attached, envs>>
    /\ UNCHANGED <<codecVars, extVars>>

\* JavaEnv::new_boolean_array ... new_double_array
NewArray == HandleCall("new_array", "NewPrimitiveArray", "Local", ThrowsOnNull, FALSE)

\* JavaEnv::get_object_array on the array h: the handle it returns has the
\* type of the array's elements
GetObjectArray ==
    /\ Ready
    /\ tokens.caps > 0
    /\ RoomForHandle
    /\ \E h \in LiveHandles, o \in MayBeNull :
        LET made == JniResult(h.env, o.ptr, "Local")
            r == IF made.kind = "Ok"
                 THEN [made EXCEPT !.handle.buf = h.bufs] ELSE made
        IN
        /\ calls' = <<Call("GetObjectArrayElement", pending, "ptr", o.ptr)>>
        /\ pending' = (pending \/ o.raised)
        /\ tokens' = Settle(1, r)
        /\ handles' = WithHandle(r)
        /\ ret' = Return("get_object_array", r)
    /\ UNCHANGED <<attached, envs, panicked>>
    /\ UNCHANGED <<codecVars, extVars>>

\* JObject::local / global / weak on the handle h: a new reference of class
\* rtype and a handle of h's type on it. from_unsafe_type of a
\* JavaDirectByteBuffer asserts typ == RefType::Local, after the foreign call
\* has answered and the Capability is gone
RefCall(op, fn, rtype, outcomes) ==
    /\ Ready
    /\ tokens.caps > 0
    /\ RoomForHandle
    /\ \E h \in LiveHandles, o \in outcomes :
        LET made == JniResult(h.env, o.ptr, rtype)
            r == IF made.kind = "Ok"
                 THEN [made EXCEPT !.handle.buf = h.buf, !.handle.bufs = h.bufs]
                 ELSE made
        IN
        /\ calls' = <<Call(fn, pending, "ptr", o.ptr)>>
        /\ pending' = (pending \/ o.raised)
        /\ IF h.buf /\ rtype # "Local" /\ made.kind = "Ok" THEN
               /\ tokens' = Settle(1, Unit)
               /\ panicked' = TRUE
               /\ ret' = Return(op, [Unit EXCEPT !.kind = "Panic"])
               /\ UNCHANGED handles
           ELSE
               /\ tokens' = Settle(1, r)
               /\ handles' = WithHandle(r)
               /\ ret' = Return(op, r)
               /\ UNCHANGED panicked
    /\ UNCHANGED <<attached, envs>>
    /\ UNCHANGED <<codecVars, extVars>>

\* JObject::local
Local == RefCall("local", "NewLocalRef", "Local", MayBeNull)

\* JObject::global
Global == RefCall("global", "NewGlobalRef", "Global", MayBeNull)

\* JObject::weak
Weak == RefCall("weak", "NewWeakGlobalRef", "Weak", ThrowsOnNull)

\* JObject::as_jobject(&self, cap: Capability) on the handle h: local(), then
\* a JavaObject built on the pointer of the handle local() made, and that
\* handle goes out of scope as as_jobject returns (exception_check,
\* delete_local_ref). A panic in that drop finds the JavaObject built and not
\* yet returned: it is leaked, or its own drop panics while unwinding
AsJObject ==
    /\ Ready
    /\ tokens.caps > 0
    /\ RoomForHandle
    /\ \E h \in LiveHandles, o \in MayBeNull, leaked \in BOOLEAN :
        LET r == JniResult(h.env, o.ptr, "Local")
            new == Call("NewLocalRef", pending, "ptr", o.ptr)
        IN
        IF r.kind = "Err" THEN
            /\ calls' = <<new>>
            /\ pending' = (pending \/ o.raised)
            /\ tokens' = Settle(1, r)
            /\ ret' = Return("as_jobject", r)
            /\ UNCHANGED <<handles, panicked>>
        ELSE IF CheckResult(pending).kind = "Err" THEN
            /\ calls' = <<new, Call("ExceptionCheck", pending, "JNI_TRUE", 0)>>
                         \o (IF leaked THEN <<>>
                             ELSE <<Call("ExceptionCheck", pending, "JNI_TRUE", 0)>>)
            /\ tokens' = Settle(1, Unit)
            /\ panicked' = TRUE
            /\ ret' = Return("as_jobject",
                             [Unit EXCEPT !.kind = IF leaked THEN "Panic" ELSE "Abort"])
            /\ UNCHANGED <<pending, handles>>
        ELSE
            /\ calls' = <<new, Call("ExceptionCheck", pending, "JNI_FALSE", 0),
                          Call("DeleteLocalRef", pending, "void", 0)>>
            /\ tokens' = Settle(1, r)
            /\ handles' = WithHandle(r)
            /\ ret' = Return("as_jobject", r)
            /\ UNCHANGED <<pending, panicked>>
    /\ UNCHANGED <<attached, envs>>
    /\ UNCHANGED <<codecVars, extVars>>

\* JObject::from(env, ptr): a handle on any jobject the caller names, made
\* without a foreign call and without a token; None for a null pointer.
\* `buffers`: Self is JavaDirectByteBuffer or JavaArray<JavaDirectByteBuffer>
FromAs(buffers) ==
    /\ Ready
    /\ RoomForHandle
    /\ \E e \in AliveEnvs, ptr \in ForeignPtrs :
       \E bufs \in (IF buffers THEN BOOLEAN ELSE {FALSE}) :
        LET r == IF ptr = 0 THEN [Unit EXCEPT !.kind = "None"]
                 ELSE [Unit EXCEPT !.kind = "Some",
                         !.handle = [env |-> e, ptr |-> ptr, rtype |-> "Local",
                                     buf |-> buffers /\ ~bufs, bufs |-> bufs]]
        IN
        /\ handles' = WithHandle(r)
        /\ ret' = Return("from", r)
    /\ calls' = <<>>
    /\ UNCHANGED <<attached, pending, envs, tokens, panicked>>
    /\ UNCHANGED <<codecVars, extVars>>

\* JavaObject::from, JavaClass::from, JavaString::from, JavaArray<T>::from, ...
From == FromAs(FALSE)

\* JavaDirectByteBuffer::from, JavaArray<JavaDirectByteBuffer>::from
BufferFrom == FromAs(TRUE)

\* the capacities a caller may ask a buffer of: one the allocation can hold,
\* one above isize::MAX, and one below it that the allocator refuses
Capacities == { "fits", "too_large", "refused" }

\* JavaDirectByteBuffer::new -> JavaEnv::new_direct_byte_buffer:
\* Vec::with_capacity(capacity) before the call panics above isize::MAX and
\* aborts the process when the allocator refuses
NewDirectByteBuffer ==
    /\ Ready
    /\ tokens.caps > 0
    /\ RoomForHandle
    /\ \E e \in AliveEnvs, o \in ThrowsOnNull, capacity \in Capacities :
        LET made == JniResult(e, o.ptr, "Local")
            r == IF made.kind = "Ok"
                 THEN [made EXCEPT !.handle.buf = TRUE] ELSE made
        IN
        IF capacity # "fits" THEN
            /\ calls' = <<>>
            /\ tokens' = Settle(1, Unit)
            /\ panicked' = TRUE
            /\ ret' = Return("new_direct_byte_buffer",
                             [Unit EXCEPT !.kind = IF capacity = "too_large"
                                                   THEN "Panic" ELSE "Abort"])
            /\ UNCHANGED <<pending, handles>>
        ELSE
            /\ calls' = <<Call("NewDirectByteBuffer", pending, "ptr", o.ptr)>>
            /\ pending' = (pending \/ o.raised)
            /\ tokens' = Settle(1, r)
            /\ handles' = WithHandle(r)
            /\ ret' = Return("new_direct_byte_buffer", r)
            /\ UNCHANGED panicked
    /\ UNCHANGED <<attached, envs>>
    /\ UNCHANGED <<codecVars, extVars>>

\* a wrapper that takes the Capability and returns no token
NoTokenCall(op, fn) ==
    /\ Ready
    /\ tokens.caps > 0
    /\ \E e \in AliveEnvs : HandlesOf(e) # {}
    /\ \E raised \in BOOLEAN :
        /\ calls' = <<Call(fn, pending, "void", 0)>>
        /\ pending' = (pending \/ raised)
    /\ tokens' = Settle(1, Unit)
    /\ ret' = Return(op, Unit)
    /\ UNCHANGED <<attached, envs, handles, panicked>>
    /\ UNCHANGED <<codecVars, extVars>>

\* JavaEnv::set_object_array
SetObjectArray == NoTokenCall("set_object_array", "SetObjectArrayElement")

\* JArrayElem::get of the primitive element types, behind JavaArray::get:
\* get_boolean_array ... get_double_array takes the Capability, then
\* exception_check hands back Ok((value, Capability)) or Err(Exception).
\* get_char_array ends in val.repr(), char::from_u32(unit).unwrap(): for an
\* element that is a surrogate it panics once the call has taken the Capability
GetArray ==
    /\ Ready
    /\ tokens.caps > 0
    /\ \E e \in AliveEnvs : HandlesOf(e) # {}
    /\ \E raised \in BOOLEAN, surrogate \in BOOLEAN :
        LET after == pending \/ raised
            r == CheckResult(after)
        IN
        IF surrogate /\ ~raised THEN
            /\ calls' = <<Call("GetPrimitiveArrayRegion", pending, "void", 0)>>
            /\ tokens' = Settle(1, Unit)
            /\ panicked' = TRUE
            /\ ret' = Return("get_array", [Unit EXCEPT !.kind = "Panic"])
            /\ UNCHANGED pending
        ELSE
            /\ calls' = <<Call("GetPrimitiveArrayRegion", pending, "void", 0),
                          Call("ExceptionCheck", after,
                               IF after THEN "JNI_TRUE" ELSE "JNI_FALSE", 0)>>
            /\ pending' = after
            /\ tokens' = Settle(1, r)
            /\ ret' = Return("get_array", r)
            /\ UNCHANGED panicked
    /\ UNCHANGED <<attached, envs, handles>>
    /\ UNCHANGED <<codecVars, extVars>>

\* JavaEnv::set_boolean_array ... set_double_array
SetArray == NoTokenCall("set_array", "SetPrimitiveArrayRegion")

\* the lengths a caller may ask a region of: one the allocation can hold,
\* usize::MAX, another one above isize::MAX, and one below it that the
\* allocator refuses
RegionLengths == { "fits", "usize_max", "too_large", "refused" }

\* JavaEnv::get_string_region: Vec::with_capacity(length + 1) panics above
\* isize::MAX and aborts the process when the allocator refuses; for usize::MAX a build that checks overflow panics at
\* length + 1, another allocates nothing, calls, and panics at vec[length].
\* The runtime writes up to three bytes a unit into the length + 1 bytes: when
\* it overruns them the process goes on or the allocator aborts it
GetStringRegion ==
    /\ Ready
    /\ tokens.caps > 0
    /\ \E e \in AliveEnvs : HandlesOf(e) # {}
    /\ \E len \in RegionLengths, checked \in BOOLEAN, raised \in BOOLEAN,
          aborts \in BOOLEAN :
        LET nocall == len \in {"too_large", "refused"} \/ (len = "usize_max" /\ checked)
            kind == IF len = "refused" THEN "Abort"
                    ELSE IF len # "fits" THEN "Panic"
                    ELSE IF aborts THEN "Abort" ELSE "Unit"
        IN
        /\ calls' = (IF nocall THEN <<>>
                     ELSE <<Call("GetStringUTFRegion", pending, "void", 0)>>)
        /\ pending' = (pending \/ (~nocall /\ raised))
        /\ panicked' = (kind # "Unit")
        /\ ret' = Return("get_string_region", [Unit EXCEPT !.kind = kind])
    /\ tokens' = Settle(1, Unit)
    /\ UNCHANGED <<attached, envs, handles>>
    /\ UNCHANGED <<codecVars, extVars>>

\* JavaEnv::get_string_unicode_region: Vec::<jchar>::with_capacity(length)
\* before the call, Vec::<char>::with_capacity(length), of twice as many
\* bytes, after it. Each panics for a size above isize::MAX and aborts the
\* process when the allocator refuses
GetStringUnicodeRegion ==
    /\ Ready
    /\ tokens.caps > 0
    /\ \E e \in AliveEnvs : HandlesOf(e) # {}
    /\ \E len \in RegionLengths \ {"usize_max"}, res \in RegionLengths \ {"usize_max"},
          raised \in BOOLEAN :
        LET size == IF len = "fits" THEN res ELSE len
            kind == IF size = "too_large" THEN "Panic"
                    ELSE IF size = "refused" THEN "Abort" ELSE "Unit"
        IN
        /\ calls' = (IF len # "fits" THEN <<>>
                     ELSE <<Call("GetStringRegion", pending, "void", 0)>>)
        /\ pending' = (pending \/ (len = "fits" /\ raised))
        /\ panicked' = (kind # "Unit")
        /\ ret' = Return("get_string_unicode_region", [Unit EXCEPT !.kind = kind])
    /\ tokens' = Settle(1, Unit)
    /\ UNCHANGED <<attached, envs, handles>>
    /\ UNCHANGED <<codecVars, extVars>>

\* throw / throw_new: Ok(Exception) when the call answers JNI_OK, else Err(err)
ThrowCall(op, fn) ==
    /\ Ready
    /\ tokens.caps > 0
    /\ \E e \in AliveEnvs : HandlesOf(e) # {}
    /\ \E err \in ErrorCodes :
        LET r == IF err = "JNI_OK" THEN OkExc ELSE ErrCode(err) IN
        /\ calls' = <<Call(fn, pending, err, 0)>>
        /\ pending' = (pending \/ err = "JNI_OK")
        /\ tokens' = Settle(1, r)
        /\ ret' = Return(op, r)
    /\ UNCHANGED <<attached, envs, handles, panicked>>
    /\ UNCHANGED <<codecVars, extVars>>

\* JavaEnv::throw
Throw == ThrowCall("throw", "Throw")

\* JavaEnv::throw_new
ThrowNew == ThrowCall("throw_new", "ThrowNew")

\* push_local_frame / ensure_local_capacity: Ok(Capability) when the call
\* answers JNI_OK, else Err((err, Exception))
FrameCall(op, fn) ==
    /\ Ready
    /\ AliveEnvs # {}
    /\ tokens.caps > 0
    /\ \E err \in ErrorCodes :
        LET r == IF err = "JNI_OK" THEN OkCap ELSE [ErrExc EXCEPT !.code = err] IN
        /\ calls' = <<Call(fn, pending, err, 0)>>
        /\ pending' = (pending \/ err # "JNI_OK")
        /\ tokens' = Settle(1, r)
        /\ ret' = Return(op, r)
    /\ UNCHANGED <<attached, envs, handles, panicked>>
    /\ UNCHANGED <<codecVars, extVars>>

\* JavaEnv::push_local_frame
PushLocalFrame == FrameCall("push_local_frame", "PushLocalFrame")

\* JavaEnv::ensure_local_capacity
EnsureLocalCapacity == FrameCall("ensure_local_capacity", "EnsureLocalCapacity")

-----------------------------------------------------------------------------
(* Wrappers that borrow the Capability *)

Value == [kind |-> "Value", handle |-> NoHandle, caps |-> 0, excs |-> 0, code |-> "none"]

\* a query: one foreign call, nothing taken and nothing handed back but a value
BorrowCall(op, fn, args) ==
    /\ Ready
    /\ tokens.caps > 0
    /\ \E e \in AliveEnvs : args => HandlesOf(e) # {}
    /\ calls' = <<Call(fn, pending, "value", 0)>>
    /\ ret' = Return(op, Value)
    /\ UNCHANGED <<attached, pending, envs, tokens, handles, panicked>>
    /\ UNCHANGED <<codecVars, extVars>>

\* what GetVersion may answer: a value of JniVersion, a value between
\* MIN_JNI_VERSION and MAX_JNI_VERSION that is none, a value outside
VersionAnswers == { "variant", "no_variant", "unsupported" }

\* whether version returns: `checked` says the build checks the transmute
VersionReturns(ans, checked) ==
    ans = "variant" \/ (ans = "no_variant" /\ ~checked)

\* JavaEnv::version: the transmute of a value that is no variant is undefined
\* (a build that checks it aborts, another returns the value); the match
\* panics on a value out of range
Version ==
    /\ Ready
    /\ tokens.caps > 0
    /\ AliveEnvs # {}
    /\ \E ans \in VersionAnswers, checked \in BOOLEAN :
        /\ calls' = <<Call("GetVersion", pending, ans, 0)>>
        /\ IF VersionReturns(ans, checked) THEN
               /\ ret' = Return("version", Value)
               /\ UNCHANGED panicked
           ELSE
               /\ panicked' = TRUE
               /\ ret' = Return("version",
                                [Unit EXCEPT !.kind = IF ans = "unsupported"
                                                      THEN "Panic" ELSE "Abort"])
    /\ UNCHANGED <<attached, pending, envs, tokens, handles>>
    /\ UNCHANGED <<codecVars, extVars>>

\* JavaEnv::is_same_object
IsSameObject == BorrowCall("is_same_object", "IsSameObject", TRUE)

\* PartialEq::eq of the handle types: exception_check for a Capability of its
\* own, then is_same_object
Eq ==
    /\ Ready
    /\ LiveHandles # {}
    /\ IF CheckResult(pending).kind = "Err" THEN
           /\ calls' = <<Call("ExceptionCheck", pending, "JNI_TRUE", 0)>>
           /\ panicked' = TRUE
           /\ ret' = Return("eq", [Unit EXCEPT !.kind = "Panic"])
       ELSE
           /\ calls' = <<Call("ExceptionCheck", pending, "JNI_FALSE", 0),
                         Call("IsSameObject", pending, "value", 0)>>
           /\ ret' = Return("eq", Value)
           /\ UNCHANGED panicked
    /\ UNCHANGED <<attached, pending, envs, tokens, handles>>
    /\ UNCHANGED <<codecVars, extVars>>

\* JavaEnv::is_null
IsNull == BorrowCall("is_null", "IsSameObject", TRUE)

\* JavaEnv::is_instance_of
IsInstanceOf == BorrowCall("is_instance_of", "IsInstanceOf", TRUE)

\* JavaEnv::is_assignable_from
IsAssignableFrom == BorrowCall("is_assignable_from", "IsAssignableFrom", TRUE)

\* JavaEnv::string_len
StringLen == BorrowCall("string_len", "GetStringLength", TRUE)

\* JavaString::size -> JavaEnv::string_size
StringSize == BorrowCall("string_size", "GetStringUTFLength", TRUE)

\* JavaString::to_str after the calls in `before`: string_chars, the decoding
\* of what GetStringUTFChars answered, then the JavaStringChars goes out of
\* scope (exception_check, release_string_chars). CStr::from_ptr of the NULL
\* the runtime answers when it is out of memory reads through a null pointer.
\* `garbled`: the bytes answered are some on which JavaChars::to_string
\* panics; the JavaStringChars is then dropped while the thread unwinds
ToStrFrom(op, before) ==
    \E o \in ThrowsOnNull, garbled \in BOOLEAN :
        LET chars == Call("GetStringUTFChars", pending, "ptr", o.ptr) IN
        IF o.ptr = 0 THEN
            /\ calls' = before \o <<chars>>
            /\ pending' = TRUE
            /\ panicked' = TRUE
            /\ ret' = Return(op, [Unit EXCEPT !.kind = "Abort"])
        ELSE IF CheckResult(pending).kind = "Err" THEN
            /\ calls' = before \o
                         <<chars, Call("ExceptionCheck", pending, "JNI_TRUE", 0)>>
            /\ panicked' = TRUE
            /\ ret' = Return(op, [Unit EXCEPT !.kind = IF garbled THEN "Abort"
                                                       ELSE "Panic"])
            /\ UNCHANGED pending
        ELSE IF garbled THEN
            /\ calls' = before \o
                         <<chars, Call("ExceptionCheck", pending, "JNI_FALSE", 0),
                           Call("ReleaseStringUTFChars", pending, "void", 0)>>
            /\ panicked' = TRUE
            /\ ret' = Return(op, [Unit EXCEPT !.kind = "Panic"])
            /\ UNCHANGED pending
        ELSE
            /\ calls' = before \o
                         <<chars, Call("ExceptionCheck", pending, "JNI_FALSE", 0),
                           Call("ReleaseStringUTFChars", pending, "void", 0)>>
            /\ ret' = Return(op, Value)
            /\ UNCHANGED <<pending, panicked>>

\* JavaString::to_str(&self, cap: &Capability)
ToStr ==
    /\ Ready
    /\ tokens.caps > 0
    /\ LiveHandles # {}
    /\ ToStrFrom("to_str", <<>>)
    /\ UNCHANGED <<attached, envs, tokens, handles>>
    /\ UNCHANGED <<codecVars, extVars>>

\* fmt::Debug for JavaString: exception_check for a Capability of its own,
\* then to_str
StringDebug ==
    /\ Ready
    /\ LiveHandles # {}
    /\ IF CheckResult(pending).kind = "Err" THEN
           /\ calls' = <<Call("ExceptionCheck", pending, "JNI_TRUE", 0)>>
           /\ panicked' = TRUE
           /\ ret' = Return("fmt", [Unit EXCEPT !.kind = "Panic"])
           /\ UNCHANGED pending
       ELSE
           ToStrFrom("fmt", <<Call("ExceptionCheck", pending, "JNI_FALSE", 0)>>)
    /\ UNCHANGED <<attached, envs, tokens, handles>>
    /\ UNCHANGED <<codecVars, extVars>>

\* a query on a JavaDirectByteBuffer with a borrowed Capability
BufferCall(op, fn) ==
    /\ Ready
    /\ tokens.caps > 0
    /\ \E h \in LiveHandles : h.buf
    /\ calls' = <<Call(fn, pending, "value", 0)>>
    /\ ret' = Return(op, Value)
    /\ UNCHANGED <<attached, pending, envs, tokens, handles, panicked>>
    /\ UNCHANGED <<codecVars, extVars>>

\* JavaDirectByteBuffer::capacity
BufferCapacity == BufferCall("capacity", "GetDirectBufferCapacity")

\* JavaDirectByteBuffer::as_ptr, as_mut_ptr
BufferAsPtr == BufferCall("as_ptr", "GetDirectBufferAddress")

\* JavaThrowable::fatal_error -> JavaEnv::fatal_error: asks for no token and
\* never returns, the runtime ends the process
FatalError ==
    /\ Ready
    /\ AliveEnvs # {}
    /\ calls' = <<Call("FatalError", pending, "noreturn", 0)>>
    /\ ret' = Return("fatal_error", [Unit EXCEPT !.kind = "Exit"])
    /\ UNCHANGED <<attached, pending, envs, tokens, handles, panicked>>
    /\ UNCHANGED <<codecVars, extVars>>

\* JavaEnv::array_length
ArrayLength == BorrowCall("array_length", "GetArrayLength", TRUE)

\* JavaClass::get_super -> JavaEnv::get_super_class: JObject::from on what
\* GetSuperclass answers, None for the NULL of a class without a superclass
GetSuper ==
    /\ Ready
    /\ tokens.caps > 0
    /\ RoomForHandle
    /\ \E h \in LiveHandles, ptr \in ForeignPtrs :
        LET r == IF ptr = 0 THEN [Unit EXCEPT !.kind = "None"]
                 ELSE [Unit EXCEPT !.kind = "Some",
                         !.handle = [env |-> h.env, ptr |-> ptr, rtype |-> "Local",
                                     buf |-> FALSE, bufs |-> FALSE]]
        IN
        /\ calls' = <<Call("GetSuperclass", pending, "ptr", ptr)>>
        /\ handles' = WithHandle(r)
        /\ ret' = Return("get_super", r)
    /\ UNCHANGED <<attached, pending, envs, tokens, panicked>>
    /\ UNCHANGED <<codecVars, extVars>>

\* JavaEnv::get_object_class: assert!(cls != 0 as jclass), then a Local handle
GetObjectClass ==
    /\ Ready
    /\ tokens.caps > 0
    /\ RoomForHandle
    /\ \E e \in AliveEnvs, cls \in ForeignPtrs :
        /\ HandlesOf(e) # {}
        /\ calls' = <<Call("GetObjectClass", pending, "ptr", cls)>>
        /\ IF cls = 0 THEN
               /\ panicked' = TRUE
               /\ ret' = Return("get_object_class", [Unit EXCEPT !.kind = "Panic"])
               /\ UNCHANGED handles
           ELSE
               LET r == [kind |-> "Value",
                         handle |-> [env |-> e, ptr |-> cls, rtype |-> "Local",
                                     buf |-> FALSE, bufs |-> FALSE],
                         caps |-> 0, excs |-> 0, code |-> "none"]
               IN
               /\ handles' = WithHandle(r)
               /\ ret' = Return("get_object_class", r)
               /\ UNCHANGED panicked
    /\ UNCHANGED <<attached, pending, envs, tokens>>
    /\ UNCHANGED <<codecVars, extVars>>

-----------------------------------------------------------------------------
(* Values going out of scope *)

\* every handle released as a local reference
DeleteFnAlwaysLocal(rtype) == "DeleteLocalRef"

\* the release call of a reference class
DeleteFn(rtype) ==
    IF rtype = "Local" THEN "DeleteLocalRef"
    ELSE IF rtype = "Global" THEN "DeleteGlobalRef"
    ELSE "DeleteWeakGlobalRef"

\* a panic on a running thread starts unwinding; a panic while unwinding
\* aborts the process
Unwinding == panicked /\ ret.kind # "Abort"

\* Drop::drop of a handle (impl_jobject!, JavaArray); `fail` is what a panic
\* in it leads to
HandleDrop(fail) ==
    \E h \in LiveHandles :
        /\ handles' = handles (-) SetToBag({h})
        /\ IF CheckResult(pending).kind = "Err" THEN
               /\ calls' = <<Call("ExceptionCheck", pending, "JNI_TRUE", 0)>>
               /\ panicked' = TRUE
               /\ ret' = Return("drop_handle", [Unit EXCEPT !.kind = fail])
           ELSE
               /\ calls' = <<Call("ExceptionCheck", pending, "JNI_FALSE", 0),
                             Call(DeleteFn(h.rtype), pending, "void", 0)>>
               /\ ret' = Return("drop_handle", Unit)
               /\ UNCHANGED panicked
    /\ UNCHANGED <<attached, pending, envs, tokens>>
    /\ UNCHANGED <<codecVars, extVars>>

\* a handle goes out of scope
DropHandle == Ready /\ HandleDrop("Panic")

\* a handle is dropped while the thread unwinds
UnwindHandle == Unwinding /\ HandleDrop("Abort")

\* the release wrapper without its assertion
AssertRefTypeSkipped(h, rtype) == TRUE

\* assert!(gobj.ref_type() == RefType::Local)   (Global, Weak)
AssertRefType(h, rtype) == h.rtype = rtype

\* delete_local_ref / delete_global_ref / delete_weak_ref(&self, obj, &cap),
\* called on a borrowed handle of any reference class
DeleteRef(op, rtype) ==
    /\ Ready
    /\ tokens.caps > 0
    /\ \E h \in LiveHandles :
        IF AssertRefType(h, rtype) THEN
            /\ calls' = <<Call(DeleteFn(rtype), pending, "void", 0)>>
            /\ ret' = Return(op, [Unit EXCEPT !.handle = h])
            /\ UNCHANGED panicked
        ELSE
            /\ calls' = <<>>
            /\ panicked' = TRUE
            /\ ret' = Return(op, [Unit EXCEPT !.kind = "Panic", !.handle = h])
    /\ UNCHANGED <<attached, pending, envs, tokens, handles>>
    /\ UNCHANGED <<codecVars, extVars>>

\* JavaEnv::delete_local_ref
DeleteLocalRef == DeleteRef("delete_local_ref", "Local")

\* JavaEnv::delete_global_ref
DeleteGlobalRef == DeleteRef("delete_global_ref", "Global")

\* JavaEnv::delete_weak_ref
DeleteWeakRef == DeleteRef("delete_weak_ref", "Weak")

\* a binding that detaches whether or not it attached
ShouldDetachAlways(env) == TRUE

\* if self.detach
ShouldDetach(env) == env.detach

\* Drop::drop of JavaEnv; a binding outlives the handles that borrow it
EnvDrop(fail) ==
    \E e \in AliveEnvs :
        /\ HandlesOf(e) = {}
        /\ envs' = [envs EXCEPT ![e] = NoEnv]
        /\ IF CheckResult(pending).kind = "Err" THEN
               /\ \E clears \in BOOLEAN :
                    calls' = <<Call("ExceptionCheck", pending, "JNI_TRUE", 0),
                               Call("ExceptionDescribe", pending, "void", 0),
                               Call("ExceptionClear", pending /\ ~clears, "void", 0)>>
               /\ pending' = FALSE
               /\ panicked' = TRUE
               /\ ret' = Return("drop_env", [Unit EXCEPT !.kind = fail])
               /\ UNCHANGED attached
           ELSE IF ShouldDetach(envs[e]) THEN
               \E err1 \in ErrorCodes, err2 \in ErrorCodes :
                   /\ calls' =
                        <<Call("ExceptionCheck", pending, "JNI_FALSE", 0),
                          Call("GetJavaVM", pending, err1, 0)>> \o
                        (IF err1 = "JNI_OK"
                         THEN <<Call("DetachCurrentThread", pending, err2, 0)>>
                         ELSE <<>>)
                   /\ attached' = (attached /\ ~(err1 = "JNI_OK" /\ err2 = "JNI_OK"))
                   /\ panicked' = (panicked \/ err1 # "JNI_OK" \/ err2 # "JNI_OK")
                   /\ ret' = Return("drop_env",
                                    IF err1 # "JNI_OK" \/ err2 # "JNI_OK"
                                    THEN [Unit EXCEPT !.kind = fail] ELSE Unit)
                   /\ UNCHANGED pending
           ELSE
               /\ calls' = <<Call("ExceptionCheck", pending, "JNI_FALSE", 0)>>
               /\ ret' = Return("drop_env", Unit)
               /\ UNCHANGED <<attached, pending, panicked>>
    /\ UNCHANGED <<tokens, handles>>
    /\ UNCHANGED <<codecVars, extVars>>

\* a binding goes out of scope
DropEnv == Ready /\ EnvDrop("Panic")

\* a binding is dropped while the thread unwinds
UnwindEnv == Unwinding /\ EnvDrop("Abort")

\* the caller lets a Capability or an Exception go out of scope
DropToken ==
    /\ Ready
    /\ \/ /\ tokens.caps > 0
          /\ tokens' = [tokens EXCEPT !.caps = @ - 1]
       \/ /\ tokens.excs > 0
          /\ tokens' = [tokens EXCEPT !.excs = @ - 1]
    /\ calls' = <<>>
    /\ ret' = Return("drop_token", Unit)
    /\ UNCHANGED <<attached, pending, envs, handles, panicked>>
    /\ UNCHANGED <<codecVars, extVars>>

\* the caller takes what the last operation handed back and goes on
TakeResult ==
    /\ ~panicked
    /\ ret.op # "none"
    /\ ret.kind # "Exit"
    /\ ret' = NoRet
    /\ calls' = <<>>
    /\ UNCHANGED <<attached, pending, envs, tokens, handles, panicked>>
    /\ UNCHANGED <<codecVars, extVars>>

Next ==
    \/ GetEnv \/ GetEnvDaemon
    \/ ExceptionCheck \/ ExceptionOccured \/ ExceptionDescribe \/ ExceptionClear
    \/ DefineClass \/ FindClass \/ AllocObject \/ NewString
    \/ NewObjectArray \/ ObjectNewArray \/ NewArray \/ GetObjectArray
    \/ Local \/ Global \/ Weak \/ AsJObject \/ From
    \/ SetObjectArray \/ GetArray \/ SetArray
    \/ GetStringRegion \/ GetStringUnicodeRegion
    \/ Throw \/ ThrowNew \/ PushLocalFrame \/ EnsureLocalCapacity
    \/ Version \/ IsSameObject \/ IsNull \/ IsInstanceOf \/ IsAssignableFrom
    \/ StringLen \/ StringSize \/ ToStr \/ StringDebug
    \/ ArrayLength \/ GetObjectClass \/ GetSuper \/ Eq \/ FatalError
    \/ DropHandle \/ DropEnv \/ DropToken
    \/ UnwindHandle \/ UnwindEnv
    \/ DeleteLocalRef \/ DeleteGlobalRef \/ DeleteWeakRef
    \/ TakeResult

Spec == Init /\ [][Next]_vars

\* the same thread in a program that also holds direct byte buffers
BufferNext ==
    \/ Next
    \/ BufferFrom \/ NewDirectByteBuffer \/ BufferCapacity \/ BufferAsPtr

BufferSpec == Init /\ [][BufferNext]_vars

-----------------------------------------------------------------------------
(* Local frames, local handles and monitor guards of one binding *)

LiveLocals == {i \in DOMAIN locals : locals[i].state = "alive"}
FreeLocals == {i \in DOMAIN locals : locals[i].state = "none"}

\* the handle in slot i as a wrapper hands it back
LocalHandle(i) ==
    [env |-> 1, ptr |-> i, rtype |-> "Local", buf |-> FALSE, bufs |-> FALSE]

\* JObject::from_unsafe(env, ptr): a handle of a local reference, which the
\* runtime made in the frame that is current at that time
NewLocal(f) == [state |-> "alive", frame |-> f, gone |-> FALSE]

\* PopLocalFrame frees every local reference of the frame f; the handles of
\* these references stay with their holders
Popped(f) ==
    [i \in DOMAIN locals |->
        IF locals[i].state = "alive" /\ locals[i].frame = f
        THEN [locals[i] EXCEPT !.gone = TRUE]
        ELSE locals[i]]

\* a binding of an attached thread with its Capability, before any other call
ScopeInit ==
    /\ CodecIdle
    /\ ThreadIdle
    /\ attached = TRUE
    /\ pending = FALSE
    /\ envs = [e \in 1..MaxEnvs |-> IF e = 1 THEN NewEnv(FALSE) ELSE NoEnv]
    /\ tokens = [caps |-> 1, excs |-> 0]
    /\ handles = EmptyBag
    /\ calls = <<>>
    /\ ret = NoRet
    /\ panicked = FALSE
    /\ ScopeIdle

\* JavaEnv::push_local_frame(&self, capacity, cap: Capability)
ScopePushLocalFrame ==
    /\ ~panicked
    /\ tokens.caps > 0
    /\ frames < MaxFrames
    /\ \E err \in ErrorCodes :
        LET r == IF err = "JNI_OK" THEN OkCap ELSE [ErrExc EXCEPT !.code = err] IN
        /\ calls' = <<Call("PushLocalFrame", pending, err, 0)>>
        /\ frames' = (IF err = "JNI_OK" THEN frames + 1 ELSE frames)
        /\ pending' = (pending \/ err # "JNI_OK")
        /\ tokens' = Settle(1, r)
        /\ ret' = Return("push_local_frame", r)
    /\ UNCHANGED <<attached, envs, handles, panicked, locals, guards>>
    /\ UNCHANGED <<codecVars, threadVars>>

\* JavaEnv::find_class(&self, name, cap: Capability), in the current frame
ScopeFindClass ==
    /\ ~panicked
    /\ tokens.caps > 0
    /\ FreeLocals # {}
    /\ \E o \in ThrowsOnNull :
        LET i == FirstOf(FreeLocals)
            r == IF o.ptr = 0 THEN ErrExc
                 ELSE [OkCap EXCEPT !.handle = LocalHandle(i)] IN
        /\ calls' = <<Call("FindClass", pending, "ptr", IF o.ptr = 0 THEN 0 ELSE i)>>
        /\ pending' = (pending \/ o.raised)
        /\ tokens' = Settle(1, r)
        /\ locals' = (IF o.ptr = 0 THEN locals ELSE [locals EXCEPT ![i] = NewLocal(frames)])
        /\ ret' = Return("find_class", r)
    /\ UNCHANGED <<attached, envs, handles, panicked, frames, guards>>
    /\ UNCHANGED <<codecVars, threadVars>>

\* JavaEnv::exception_clear(&self, exn: Exception) -> Capability
ScopeExceptionClear ==
    /\ ~panicked
    /\ tokens.excs > 0
    /\ calls' = <<Call("ExceptionClear", pending, "void", 0)>>
    /\ pending' = FALSE
    /\ tokens' = [caps |-> tokens.caps + 1, excs |-> tokens.excs - 1]
    /\ ret' = Return("exception_clear", OkCap)
    /\ UNCHANGED <<attached, envs, handles, panicked>>
    /\ UNCHANGED <<codecVars, scopeVars, threadVars>>

\* what PopLocalFrame does to the references of the current frame. The
\* wrappers do not ask whether a frame was pushed: with none, the runtime
\* frees the references of the frame the thread started in, leaves them, or
\* ends the process
PopOutcomes == IF frames > 0 THEN {"freed"} ELSE {"freed", "kept", "abort"}

\* the frame that is current after PopLocalFrame
Below(f) == IF f > 0 THEN f - 1 ELSE 0

\* JavaEnv::pop_local_frame_null(&self, _cap: &Capability)
ScopePopLocalFrameNull ==
    /\ ~panicked
    /\ tokens.caps > 0
    /\ \E out \in PopOutcomes :
        /\ calls' = <<Call("PopLocalFrame", pending, "ptr", 0)>>
        /\ frames' = Below(frames)
        /\ locals' = (IF out = "freed" THEN Popped(frames) ELSE locals)
        /\ panicked' = (out = "abort")
        /\ ret' = Return("pop_local_frame_null",
                         [Unit EXCEPT !.kind = IF out = "abort" THEN "Abort" ELSE "Unit"])
    /\ UNCHANGED <<attached, pending, envs, tokens, handles, guards>>
    /\ UNCHANGED <<codecVars, threadVars>>

\* JavaEnv::pop_local_frame(&self, result: &T, _cap: &Capability) -> T
ScopePopLocalFrame ==
    /\ ~panicked
    /\ tokens.caps > 0
    /\ FreeLocals # {}
    /\ \E i \in LiveLocals, null \in BOOLEAN, out \in PopOutcomes :
        LET n == FirstOf(FreeLocals)
            left == IF out = "freed" THEN Popped(frames) ELSE locals
        IN
        /\ calls' = <<Call("PopLocalFrame", pending, IF null THEN "NULL" ELSE "ptr", i)>>
        /\ frames' = Below(frames)
        /\ IF out = "abort" THEN
               /\ panicked' = TRUE
               /\ ret' = Return("pop_local_frame", [Unit EXCEPT !.kind = "Abort"])
               /\ UNCHANGED locals
           ELSE IF null THEN
               \* assert!(r != 0 as jobject), after the frame has been popped
               /\ locals' = left
               /\ panicked' = TRUE
               /\ ret' = Return("pop_local_frame", [Unit EXCEPT !.kind = "Panic"])
           ELSE
               /\ locals' = [left EXCEPT ![n] = NewLocal(Below(frames))]
               /\ ret' = Return("pop_local_frame",
                                [Unit EXCEPT !.kind = "Ok", !.handle = LocalHandle(n)])
               /\ UNCHANGED panicked
    /\ UNCHANGED <<attached, pending, envs, tokens, handles, guards>>
    /\ UNCHANGED <<codecVars, threadVars>>

\* what a panic in a destructor leads to: unwinding on a running thread, the
\* end of the process on one that unwinds
DropFails == IF panicked THEN "Abort" ELSE "Panic"

\* Drop::drop of a handle of a local reference, at the end of its scope or
\* while the thread unwinds; a guard borrows its handle
ScopeDropLocal ==
    /\ ~panicked \/ Unwinding
    /\ \E i \in LiveLocals \ BagToSet(guards) :
        /\ locals' = [locals EXCEPT ![i] = NoLocal]
        /\ IF CheckResult(pending).kind = "Err" THEN
               /\ calls' = <<Call("ExceptionCheck", pending, "JNI_TRUE", 0)>>
               /\ panicked' = TRUE
               /\ ret' = Return("drop_handle", [Unit EXCEPT !.kind = DropFails, !.handle = LocalHandle(i)])
           ELSE
               /\ calls' = <<Call("ExceptionCheck", pending, "JNI_FALSE", 0),
                             Call(DeleteFn("Local"), pending, "void", i)>>
               /\ ret' = Return("drop_handle", [Unit EXCEPT !.handle = LocalHandle(i)])
               /\ UNCHANGED panicked
    /\ UNCHANGED <<attached, pending, envs, tokens, handles, frames, guards>>
    /\ UNCHANGED <<codecVars, threadVars>>

\* JObject::as_jobject(&self, cap: Capability): local() makes a new local
\* reference and a handle for it; the JavaObject returned is built from that
\* handle's pointer, and the handle itself is dropped when as_jobject returns
ScopeAsJObject ==
    /\ ~panicked
    /\ tokens.caps > 0
    /\ FreeLocals # {}
    /\ LiveLocals # {}
    /\ \E o \in MayBeNull, leaked \in BOOLEAN :
        LET n == FirstOf(FreeLocals) IN
        IF o.ptr = 0 THEN
            /\ calls' = <<Call("NewLocalRef", pending, "ptr", 0)>>
            /\ pending' = (pending \/ o.raised)
            /\ tokens' = Settle(1, ErrExc)
            /\ ret' = Return("as_jobject", ErrExc)
            /\ UNCHANGED <<locals, panicked>>
        ELSE IF CheckResult(pending).kind = "Err" THEN
            \* the JavaObject built and not yet returned is leaked, or its
            \* own drop panics while unwinding
            /\ calls' = <<Call("NewLocalRef", pending, "ptr", n),
                          Call("ExceptionCheck", pending, "JNI_TRUE", 0)>>
                         \o (IF leaked THEN <<>>
                             ELSE <<Call("ExceptionCheck", pending, "JNI_TRUE", 0)>>)
            /\ panicked' = TRUE
            /\ tokens' = Settle(1, Unit)
            /\ ret' = Return("as_jobject",
                             [Unit EXCEPT !.kind = IF leaked THEN "Panic" ELSE "Abort"])
            /\ UNCHANGED <<locals, pending>>
        ELSE
            /\ calls' = <<Call("NewLocalRef", pending, "ptr", n),
                          Call("ExceptionCheck", pending, "JNI_FALSE", 0),
                          Call(DeleteFn("Local"), pending, "void", n)>>
            /\ locals' = [locals EXCEPT ![n] = [NewLocal(frames) EXCEPT !.gone = TRUE]]
            /\ ret' = Return("as_jobject",
                             [OkCap EXCEPT !.handle = LocalHandle(n)])
            /\ UNCHANGED <<tokens, pending, panicked>>
    /\ UNCHANGED <<attached, envs, handles, frames, guards>>
    /\ UNCHANGED <<codecVars, threadVars>>

\* JObject::monitor(&self, cap: &Capability), that is JavaMonitor::new; it
\* borrows the handle, so a handle may have several guards
ScopeMonitor ==
    /\ ~panicked
    /\ tokens.caps > 0
    /\ BagCardinality(guards) < MaxLocals
    /\ \E i \in LiveLocals :
        \E err \in ErrorCodes :
            /\ calls' = <<Call("MonitorEnter", pending, err, i)>>
            /\ guards' = (IF err = "JNI_OK" THEN guards (+) SetToBag({i}) ELSE guards)
            /\ ret' = Return("monitor",
                             IF err = "JNI_OK"
                             THEN [Unit EXCEPT !.kind = "Ok", !.handle = LocalHandle(i)]
                             ELSE [ErrCode(err) EXCEPT !.handle = LocalHandle(i)])
    /\ UNCHANGED <<attached, pending, envs, tokens, handles, panicked, frames, locals>>
    /\ UNCHANGED <<codecVars, threadVars>>

\* Drop::drop of JavaMonitor, at the end of its scope or while the thread
\* unwinds
ScopeDropMonitor ==
    /\ ~panicked \/ Unwinding
    /\ \E i \in BagToSet(guards) :
        /\ guards' = guards (-) SetToBag({i})
        /\ IF CheckResult(pending).kind = "Err" THEN
               /\ calls' = <<Call("ExceptionCheck", pending, "JNI_TRUE", 0)>>
               /\ panicked' = TRUE
               /\ ret' = Return("drop_monitor", [Unit EXCEPT !.kind = DropFails, !.handle = LocalHandle(i)])
           ELSE
               \E err \in ErrorCodes :
                   /\ calls' = <<Call("ExceptionCheck", pending, "JNI_FALSE", 0),
                                 Call("MonitorExit", pending, err, i)>>
                   /\ ret' = Return("drop_monitor", [Unit EXCEPT !.handle = LocalHandle(i)])
                   /\ UNCHANGED panicked
    /\ UNCHANGED <<attached, pending, envs, tokens, handles, frames, locals>>
    /\ UNCHANGED <<codecVars, threadVars>>

ScopeNext ==
    \/ ScopePushLocalFrame \/ ScopeFindClass \/ ScopeExceptionClear
    \/ ScopePopLocalFrameNull \/ ScopePopLocalFrame
    \/ ScopeDropLocal \/ ScopeMonitor \/ ScopeDropMonitor
    \/ ScopeAsJObject

ScopeSpec == ScopeInit /\ [][ScopeNext]_vars

-----------------------------------------------------------------------------
(* Several threads sharing one runtime through JavaVM handles *)

Threads == 1..MaxThreads

\* JavaVM{ ptr, version, owned }; every handle points to the one runtime
VmHandle(owned) == [owned |-> owned]

\* the thread that called JavaVM::new; the owning handle has a raw pointer and
\* no Send impl, so it stays with that thread
Creator == 1

\* JavaEnv{ ptr, jvm: self, detach }, made by thread t through the handle h
TNewEnv(t, h, detach) == [thread |-> t, vm |-> h, detach |-> detach]

LiveVms == BagToSet(vms)
LiveBindings == BagToSet(tenvs)

\* a foreign call issued by thread t; `owner` is the thread that made the
\* binding the call goes through (0 for a call through a JavaVM handle), and
\* `dead` says that the runtime had been destroyed when the call was issued
TCall(fn, t, owner, code) ==
    [fn |-> fn, thread |-> t, owner |-> owner, code |-> code, dead |-> destroyed]

\* JavaEnv holds a raw *mut JNIEnvImpl and has no Send or Sync impl: only the
\* thread that made a binding can call through it, or drop it
MayUse(t, env) == env.thread = t

\* the answers of a foreign call that is issued only if `asked`
AnswersIf(asked) == IF asked THEN ErrorCodes ELSE {"JNI_OK"}

\* GetEnv on thread t; a destroyed runtime is freed memory and may answer anything
TGetEnvAnswers(t) ==
    IF destroyed THEN {"JNI_OK", "JNI_EDETACHED", "JNI_EVERSION"}
    ELSE (IF t \in tattached THEN {"JNI_OK"} ELSE {"JNI_EDETACHED"}) \cup {"JNI_EVERSION"}

\* JavaVM::get_env_gen run by thread t: the calls it issues, the binding it
\* returns if it returns one, and the attached threads after it
TGetEnvResult(t, h, fun, res, ares) ==
    IF res = "JNI_OK" THEN
        [calls |-> <<TCall("GetEnv", t, 0, res)>>,
         ok |-> TRUE, env |-> TNewEnv(t, h, FALSE), attached |-> tattached]
    ELSE IF res = "JNI_EDETACHED" THEN
        [calls |-> <<TCall("GetEnv", t, 0, res), TCall(fun, t, 0, ares)>>,
         ok |-> (ares = "JNI_OK"), env |-> TNewEnv(t, h, TRUE),
         attached |-> IF ares = "JNI_OK" THEN tattached \cup {t} ELSE tattached]
    ELSE
        [calls |-> <<TCall("GetEnv", t, 0, res)>>,
         ok |-> FALSE, env |-> TNewEnv(t, h, FALSE), attached |-> tattached]

\* Drop::drop of the binding env run by thread t, with att the attached threads
\* before it: the calls, the attached threads and the threads with a pending
\* exception after it, and whether it panicked
TDropResult(t, env, att, err1, err2) ==
    IF t \in tpending THEN
        [calls |-> <<TCall("ExceptionCheck", t, env.thread, "JNI_TRUE"),
                     TCall("ExceptionDescribe", t, env.thread, "void"),
                     TCall("ExceptionClear", t, env.thread, "void")>>,
         attached |-> att, pending |-> tpending \ {t}, panic |-> TRUE]
    ELSE IF ShouldDetach(env) THEN
        [calls |-> <<TCall("ExceptionCheck", t, env.thread, "JNI_FALSE"),
                     TCall("GetJavaVM", t, env.thread, err1)>> \o
                   (IF err1 = "JNI_OK"
                    THEN <<TCall("DetachCurrentThread", t, env.thread, err2)>>
                    ELSE <<>>),
         attached |-> IF err1 = "JNI_OK" /\ err2 = "JNI_OK" THEN att \ {t} ELSE att,
         pending |-> tpending,
         panic |-> (err1 # "JNI_OK" \/ err2 # "JNI_OK")]
    ELSE
        [calls |-> <<TCall("ExceptionCheck", t, env.thread, "JNI_FALSE")>>,
         attached |-> att, pending |-> tpending, panic |-> FALSE]

\* JavaVM::new returned Ok on the creator thread, which CreateJavaVM attached;
\* other native threads may be attached already
ThreadInit ==
    /\ CodecIdle
    /\ ScopeIdle
    /\ attached = FALSE
    /\ ProtoIdle
    /\ vms = SetToBag({VmHandle(TRUE)})
    /\ destroyed = FALSE
    /\ tinitial \in {S \in SUBSET Threads : Creator \in S}
    /\ tattached = tinitial
    /\ tenvs = EmptyBag
    /\ tpending = {}
    /\ tpanicked = {}
    /\ tcalls = <<>>
    /\ ttokens = [t \in Threads |-> NoTokens]
    /\ taborted = FALSE

\* thread t runs: the process has not aborted and t has not panicked
Running(t) == ~taborted /\ t \notin tpanicked

\* the Capability and Exception values the threads hold, all together
TokensHeld ==
    LET Held[n \in 0..MaxThreads] ==
            IF n = 0 THEN 0 ELSE Held[n - 1] + ttokens[n].caps + ttokens[n].excs
    IN Held[MaxThreads]

\* the tokens after thread t has panicked: unwinding drops the ones it held
Unwound(t) == [ttokens EXCEPT ![t] = NoTokens]

\* the tokens after thread t gave `taken` Capability values and got r back
TSettle(t, taken, r) ==
    [ttokens EXCEPT ![t] = [caps |-> @.caps - taken + r.caps, excs |-> @.excs + r.excs]]

\* JavaVM::get_env_gen(&self, fun) called by thread t on the handle h; Ok
\* carries a binding and a fresh Capability, whatever the thread has pending
TGetEnvGen(t, h, fun) ==
    /\ Running(t)
    /\ h \in LiveVms
    /\ BagCardinality(tenvs) < MaxBindings
    /\ TokensHeld < MaxTokens
    /\ \E res \in TGetEnvAnswers(t) :
       \E ares \in AnswersIf(res = "JNI_EDETACHED") :
        LET r == TGetEnvResult(t, h, fun, res, ares) IN
        /\ tcalls' = r.calls
        /\ tattached' = r.attached
        /\ tenvs' = (IF r.ok THEN tenvs (+) SetToBag({r.env}) ELSE tenvs)
        /\ ttokens' = (IF r.ok THEN TSettle(t, 0, OkCap) ELSE ttokens)
    /\ UNCHANGED <<vms, destroyed, tinitial, tpending, tpanicked, taborted>>
    /\ UNCHANGED <<codecVars, protoVars, scopeVars>>

\* JavaEnv::version(&self, _cap: &Capability), a call through a binding
\* an answer that is no variant of JniVersion trips the transmute's validity
\* check where the build has one: a panic that cannot unwind, the process
\* aborts. An answer out of the range panics and the thread unwinds
TVersionOn(t) ==
    /\ Running(t)
    /\ ttokens[t].caps > 0
    /\ \E env \in LiveBindings, ans \in VersionAnswers :
       \E checked \in (IF ans = "no_variant" THEN BOOLEAN ELSE {FALSE}) :
        /\ MayUse(t, env)
        /\ tcalls' = <<TCall("GetVersion", t, env.thread, ans)>>
        /\ taborted' = (ans = "no_variant" /\ ~VersionReturns(ans, checked))
        /\ tpanicked' = (IF ans = "unsupported" THEN tpanicked \cup {t} ELSE tpanicked)
        /\ ttokens' = (IF ans = "unsupported" THEN Unwound(t) ELSE ttokens)
    /\ UNCHANGED <<vms, destroyed, tattached, tinitial, tenvs, tpending>>
    /\ UNCHANGED <<codecVars, protoVars, scopeVars>>

\* JavaEnv::find_class(&self, name, cap: Capability) with a class the runtime
\* does not find: it raises, and the Capability comes back as an Exception
TFindClassFailsOn(t) ==
    /\ Running(t)
    /\ ttokens[t].caps > 0
    /\ \E env \in LiveBindings :
        /\ MayUse(t, env)
        /\ tcalls' = <<TCall("FindClass", t, env.thread, "NULL")>>
    /\ tpending' = tpending \cup {t}
    /\ ttokens' = TSettle(t, 1, ErrExc)
    /\ UNCHANGED <<vms, destroyed, tattached, tinitial, tenvs, tpanicked, taborted>>
    /\ UNCHANGED <<codecVars, protoVars, scopeVars>>

\* JavaEnv::exception_clear(&self, exn: Exception) -> Capability, with any
\* Exception the thread holds
TExceptionClearOn(t) ==
    /\ Running(t)
    /\ ttokens[t].excs > 0
    /\ \E env \in LiveBindings :
        /\ MayUse(t, env)
        /\ tcalls' = <<TCall("ExceptionClear", t, env.thread, "void")>>
    /\ tpending' = tpending \ {t}
    /\ ttokens' = [ttokens EXCEPT ![t] = [caps |-> @.caps + 1, excs |-> @.excs - 1]]
    /\ UNCHANGED <<vms, destroyed, tattached, tinitial, tenvs, tpanicked, taborted>>
    /\ UNCHANGED <<codecVars, protoVars, scopeVars>>

\* Drop::drop of JavaEnv, by the thread that holds the binding; a thread that
\* has panicked drops its bindings while it unwinds, and a panic of the drop
\* in a thread that unwinds aborts the process
TDropEnvOn(t) ==
    /\ ~taborted
    /\ \E env \in LiveBindings :
        /\ MayUse(t, env)
        /\ \E err1 \in AnswersIf(t \notin tpending /\ ShouldDetach(env)) :
           \E err2 \in AnswersIf(t \notin tpending /\ ShouldDetach(env) /\ err1 = "JNI_OK") :
            LET r == TDropResult(t, env, tattached, err1, err2) IN
            /\ tcalls' = r.calls
            /\ tattached' = r.attached
            /\ tpending' = r.pending
            /\ tpanicked' = (IF r.panic THEN tpanicked \cup {t} ELSE tpanicked)
            /\ taborted' = (r.panic /\ t \in tpanicked)
            /\ ttokens' = (IF r.panic THEN Unwound(t) ELSE ttokens)
        /\ tenvs' = tenvs (-) SetToBag({env})
    /\ UNCHANGED <<vms, destroyed, tinitial>>
    /\ UNCHANGED <<codecVars, protoVars, scopeVars>>

\* thread t lets a Capability or an Exception go out of scope
TDropTokenOn(t) ==
    /\ Running(t)
    /\ \/ /\ ttokens[t].caps > 0
          /\ ttokens' = [ttokens EXCEPT ![t].caps = @ - 1]
       \/ /\ ttokens[t].excs > 0
          /\ ttokens' = [ttokens EXCEPT ![t].excs = @ - 1]
    /\ tcalls' = <<>>
    /\ UNCHANGED <<vms, destroyed, tattached, tinitial, tenvs, tpending, tpanicked, taborted>>
    /\ UNCHANGED <<codecVars, protoVars, scopeVars>>

\* the JavaVM handle the threads share
Shared == VmHandle(TRUE)

\* JavaVM::get_env
TGetEnv == \E t \in Threads : TGetEnvGen(t, Shared, "AttachCurrentThread")

\* JavaVM::get_env_daemon
TGetEnvDaemon == \E t \in Threads : TGetEnvGen(t, Shared, "AttachCurrentThreadAsDaemon")

TVersion == \E t \in Threads : TVersionOn(t)
TFindClassFails == \E t \in Threads : TFindClassFailsOn(t)
TExceptionClear == \E t \in Threads : TExceptionClearOn(t)
TDropEnv == \E t \in Threads : TDropEnvOn(t)
TDropToken == \E t \in Threads : TDropTokenOn(t)

ThreadNext ==
    \/ TGetEnv \/ TGetEnvDaemon
    \/ TVersion \/ TFindClassFails \/ TExceptionClear
    \/ TDropEnv \/ TDropToken

ThreadSpec == ThreadInit /\ [][ThreadNext]_vars

-----------------------------------------------------------------------------
(* The JavaVM handles of the creator thread and the end of the runtime *)

\* JavaVM::new returned Ok and no other thread has to do with the runtime
VmInit ==
    /\ ThreadInit
    /\ tinitial = {Creator}

\* JavaVM::from(ptr) run by thread t after the calls in `before`: a handle with
\* owned: false, a binding taken through it to ask the version, dropped before
\* from returns. When get_env fails the handle keeps JNI_VERSION_1_1
JavaVMFrom(t, before) ==
    \E res \in TGetEnvAnswers(t) :
    \E ares \in AnswersIf(res = "JNI_EDETACHED") :
    \E err1 \in AnswersIf(res = "JNI_EDETACHED" /\ ares = "JNI_OK") :
    \E err2 \in AnswersIf(res = "JNI_EDETACHED" /\ ares = "JNI_OK" /\ err1 = "JNI_OK") :
    \E ans \in VersionAnswers, checked \in BOOLEAN :
        LET h == VmHandle(FALSE)
            g == TGetEnvResult(t, h, "AttachCurrentThread", res, ares)
            d == TDropResult(t, g.env, g.attached, err1, err2) IN
        IF ~g.ok THEN
            /\ tcalls' = before \o g.calls
            /\ vms' = vms (+) SetToBag({h})
            /\ tattached' = g.attached
            /\ UNCHANGED <<tenvs, tpending, tpanicked, ttokens, taborted>>
        ELSE IF ans = "no_variant" /\ ~VersionReturns(ans, checked) THEN
            \* the process aborts inside version: the binding is not dropped
            /\ tcalls' = before \o g.calls \o <<TCall("GetVersion", t, t, ans)>>
            /\ tattached' = g.attached
            /\ tenvs' = tenvs (+) SetToBag({g.env})
            /\ taborted' = TRUE
            /\ UNCHANGED <<vms, tpending, tpanicked, ttokens>>
        ELSE
            LET unwinds == ans = "unsupported"
                panic == d.panic \/ unwinds IN
            /\ tcalls' = before \o g.calls \o
                         <<TCall("GetVersion", t, t, ans)>> \o d.calls
            /\ vms' = (IF panic THEN vms ELSE vms (+) SetToBag({h}))
            /\ tattached' = d.attached
            /\ tpending' = d.pending
            /\ tpanicked' = (IF panic THEN tpanicked \cup {t} ELSE tpanicked)
            /\ taborted' = (unwinds /\ d.panic)
            /\ ttokens' = (IF panic THEN Unwound(t) ELSE ttokens)
            /\ UNCHANGED tenvs

\* JavaVM::from(ptr) called by the program with the pointer of the runtime
VmFrom ==
    /\ Running(Creator)
    /\ BagCardinality(vms) < MaxVms
    /\ JavaVMFrom(Creator, <<>>)
    /\ UNCHANGED <<destroyed, tinitial>>
    /\ UNCHANGED <<codecVars, protoVars, scopeVars>>

\* JavaVM::created(): JNI_GetCreatedJavaVMs for the count, Err(res) unless it
\* answers JNI_OK; JNI_GetCreatedJavaVMs for the pointers, Err(res) likewise;
\* assert!(count == count1); then JavaVM::from on the runtime if there is one
Created ==
    LET t == Creator IN
    /\ Running(t)
    /\ BagCardinality(vms) < MaxVms
    /\ \E res \in ErrorCodes :
       \E code \in AnswersIf(res = "JNI_OK") :
       \E same \in (IF res = "JNI_OK" /\ code = "JNI_OK" THEN BOOLEAN ELSE {TRUE}) :
        LET counted == <<TCall("JNI_GetCreatedJavaVMs", t, 0, res)>>
            listed == counted \o <<TCall("JNI_GetCreatedJavaVMs", t, 0, code)>>
        IN
        IF res # "JNI_OK" THEN
            /\ tcalls' = counted
            /\ UNCHANGED <<vms, tattached, tenvs, tpending, tpanicked, ttokens, taborted>>
        ELSE IF code # "JNI_OK" THEN
            /\ tcalls' = listed
            /\ UNCHANGED <<vms, tattached, tenvs, tpending, tpanicked, ttokens, taborted>>
        ELSE IF ~same THEN
            /\ tcalls' = listed
            /\ tpanicked' = tpanicked \cup {t}
            /\ ttokens' = Unwound(t)
            /\ UNCHANGED <<vms, tattached, tenvs, tpending, taborted>>
        ELSE IF destroyed THEN
            /\ tcalls' = listed
            /\ UNCHANGED <<vms, tattached, tenvs, tpending, tpanicked, ttokens, taborted>>
        ELSE
            JavaVMFrom(t, listed)
    /\ UNCHANGED <<destroyed, tinitial>>
    /\ UNCHANGED <<codecVars, protoVars, scopeVars>>

\* a handle that takes every JavaVM for its own
IsOwnedAlways(h) == TRUE

\* if !self.owned { return; }
IsOwned(h) == h.owned

\* JavaVM::new when JNI_CreateJavaVM answers an error, as it does once the
\* process has a runtime: Err(res), and no JavaVM value is built.
\* `nul`: an option string has a NUL in it, CString::new(..).unwrap() panics
\* before the call
VmNewFails ==
    /\ Running(Creator)
    /\ \E res \in ErrorCodes \ {"JNI_OK"}, nul \in BOOLEAN :
        /\ tcalls' = (IF nul THEN <<>>
                      ELSE <<TCall("JNI_CreateJavaVM", Creator, 0, res)>>)
        /\ tpanicked' = (IF nul THEN tpanicked \cup {Creator} ELSE tpanicked)
        /\ ttokens' = (IF nul THEN Unwound(Creator) ELSE ttokens)
    /\ UNCHANGED <<vms, destroyed, tattached, tinitial, tenvs, tpending, taborted>>
    /\ UNCHANGED <<codecVars, protoVars, scopeVars>>

\* Drop::drop of JavaVM; the bindings made through a handle borrow it, so it
\* outlives them. Its panic in a thread that unwinds aborts the process
DropVm ==
    \E h \in LiveVms :
        /\ ~taborted
        /\ CopiesIn(h, vms) > 1 \/ \A env \in LiveBindings : env.vm # h
        /\ vms' = vms (-) SetToBag({h})
        /\ IF ~IsOwned(h) THEN
               /\ tcalls' = <<>>
               /\ UNCHANGED <<destroyed, tpanicked, ttokens, taborted>>
           ELSE
               \E err \in ErrorCodes :
                   /\ tcalls' = <<TCall("DestroyJavaVM", Creator, 0, err)>>
                   /\ destroyed' = (err = "JNI_OK")
                   /\ tpanicked' = (IF err = "JNI_OK" THEN tpanicked
                                    ELSE tpanicked \cup {Creator})
                   /\ taborted' = (err # "JNI_OK" /\ Creator \in tpanicked)
                   /\ ttokens' = (IF err = "JNI_OK" THEN ttokens ELSE Unwound(Creator))
        /\ UNCHANGED <<tattached, tinitial, tenvs, tpending>>
        /\ UNCHANGED <<codecVars, protoVars, scopeVars>>

\* JavaVM::get_env through any handle the thread holds
VmGetEnv == \E h \in LiveVms : TGetEnvGen(Creator, h, "AttachCurrentThread")

\* JavaVM::get_env_daemon through any handle the thread holds
VmGetEnvDaemon == \E h \in LiveVms : TGetEnvGen(Creator, h, "AttachCurrentThreadAsDaemon")

VmVersion == TVersionOn(Creator)
VmFindClassFails == TFindClassFailsOn(Creator)
VmExceptionClear == TExceptionClearOn(Creator)
VmDropEnv == TDropEnvOn(Creator)
VmDropToken == TDropTokenOn(Creator)

VmNext ==
    \/ VmGetEnv \/ VmGetEnvDaemon
    \/ VmVersion \/ VmFindClassFails \/ VmExceptionClear
    \/ VmDropEnv \/ VmDropToken \/ Created \/ VmFrom \/ DropVm \/ VmNewFails

VmSpec == VmInit /\ [][VmNext]_vars

-----------------------------------------------------------------------------
(* JavaEnv::get_string_region *)

\* code units of the one-, two- and three-byte forms, and U+0000
RegionUnits == { 0, \h41, \hE9, \h800 }

\* the bytes GetStringUTFRegion writes for one UTF-16 code unit
RegionUnitBytes(u) ==
    IF u >= 1 /\ u <= \h7F THEN <<u>>
    ELSE IF u <= \h7FF THEN <<\hC0 + Shr(u, 6), \h80 + BitAnd(u, \h3F)>>
    ELSE <<\hE0 + Shr(u, 12), \h80 + BitAnd(Shr(u, 6), \h3F), \h80 + BitAnd(u, \h3F)>>

\* the bytes GetStringUTFRegion writes for the code units us
RECURSIVE RegionBytes(_)
RegionBytes(us) ==
    IF us = <<>> THEN <<>> ELSE RegionUnitBytes(Head(us)) \o RegionBytes(Tail(us))

\* a string of the runtime and the region a caller asks for, inside the
\* string or not
RegionInit ==
    /\ ProtoIdle
    /\ attached = FALSE
    /\ ScopeIdle
    /\ ThreadIdle
    /\ value = <<>>
    /\ contents = <<>>
    /\ decoded = NoResult
    /\ overflowChecks = FALSE
    /\ cpc = "region_start"
    /\ jstring \in UNION { [1..m -> RegionUnits] : m \in 0..MaxRegionLen }
    /\ \E st \in 0..MaxRegionLen, ln \in 0..MaxRegionLen :
        region = [start |-> st, length |-> ln]
    /\ written = <<>>
    /\ initArgs = [kind |-> "NotRun", code |-> "none", options |-> <<>>]
    /\ unit = 0
    /\ charBack = [kind |-> "NotRun", char |-> 0]

\* what the allocation may hold where nothing was written: the vector is read
\* uninitialised there, every byte value can come out
JunkBytes == 0..255

\* the vector after vec.set_len(length + 1) and vec[length] = 0: the first
\* `length` bytes are those the runtime wrote there, and where it wrote none
\* the bytes the allocation held, junk; what it wrote beyond length + 1 bytes
\* went past the allocation
RegionBuffer(w, length, junk) ==
    [k \in 1..(length + 1) |->
        IF k > length THEN 0 ELSE IF k <= Len(w) THEN w[k] ELSE junk[k]]

\* JavaEnv::get_string_region(&self, s, start, length, cap), also
\* JavaString::region and as_chars. For a region that is not inside the string
\* the runtime raises StringIndexOutOfBoundsException and writes nothing. It
\* ends what it writes with a 0: more than `length` bytes of chars pass the
\* length + 1 bytes allocated, and the process goes on or the allocator aborts it
GetStringRegionCall ==
    /\ cpc = "region_start"
    /\ LET inside == region.start + region.length <= Len(jstring)
           w == IF inside
                THEN RegionBytes(SubSeq(jstring, region.start + 1,
                                        region.start + region.length))
                ELSE <<>>
       IN
       \E junk \in (IF inside THEN {[k \in 1..region.length |-> 0]}
                    ELSE [1..region.length -> JunkBytes]) :
       \E aborts \in (IF Len(w) > region.length THEN BOOLEAN ELSE {FALSE}) :
        /\ calls' = <<Call("GetStringUTFRegion", pending, "void", 0)>>
        /\ pending' = ~inside
        /\ written' = w
        /\ contents' = (IF aborts THEN <<>> ELSE RegionBuffer(w, region.length, junk))
        /\ cpc' = (IF aborts THEN "region_aborted" ELSE "region")
    /\ UNCHANGED <<value, decoded, overflowChecks, jstring, region, initArgs, unit, charBack>>
    /\ UNCHANGED <<attached, envs, tokens, handles, ret, panicked>>
    /\ UNCHANGED extVars

\* chars.to_string() on the buffer get_string_region returned
RegionToString ==
    /\ cpc = "region"
    /\ decoded' = JavaCharsToString(contents, overflowChecks)
    /\ cpc' = "region_decoded"
    /\ UNCHANGED <<value, contents, overflowChecks, sideVars>>
    /\ UNCHANGED <<protoVars, extVars>>

RegionNext == GetStringRegionCall \/ RegionToString

RegionSpec == RegionInit /\ [][RegionNext]_vars

-----------------------------------------------------------------------------
(* JavaVMInitArgs::default *)

\* option strings the runtime may answer, as NUL-terminated buffers
OptionStrings ==
    { <<\h2D, \h58, 0>>, <<\hC3, \hA9, 0>>, <<\hED, \hB0, \h80, 0>>,
      <<\hED, \hA0, \h80, \hED, \hB0, \h80, 0>>, <<\hF0, 0>> }

\* JavaVMInitArgs::from: Some(options) unless an option string does not
\* decode; JavaVMOption::from is JavaChars::from_raw_vec(..).to_string()
RECURSIVE InitArgsFrom(_, _)
InitArgsFrom(opts, checked) ==
    IF opts = <<>> THEN "Some"
    ELSE LET opt == JavaCharsToString(Head(opts), checked) IN
         IF opt.kind = "Panic" THEN "Panic"
         ELSE IF opt.kind = "None" THEN "None"
         ELSE InitArgsFrom(Tail(opts), checked)

\* the result of JavaVMInitArgs::default when JNI_GetDefaultJavaVMInitArgs
\* answers res and the options opts
DefaultResult(res, opts, checked) ==
    IF res # "JNI_OK" THEN [kind |-> "Err", code |-> res, options |-> opts]
    ELSE LET from == InitArgsFrom(opts, checked) IN
         IF from = "Panic" THEN [kind |-> "Panic", code |-> "none", options |-> opts]
         ELSE IF from = "None" THEN [kind |-> "Err", code |-> "JNI_OK", options |-> opts]
         ELSE [kind |-> "Ok", code |-> "none", options |-> opts]

ArgsInit ==
    /\ ProtoIdle
    /\ attached = FALSE
    /\ ScopeIdle
    /\ ThreadIdle
    /\ value = <<>>
    /\ contents = <<>>
    /\ decoded = NoResult
    /\ overflowChecks \in BOOLEAN
    /\ cpc = "args_start"
    /\ SideIdle

\* JavaVMInitArgs::default(version)
InitArgsDefault ==
    /\ cpc = "args_start"
    /\ \E res \in ErrorCodes :
       \E opts \in UNION { [1..m -> OptionStrings] : m \in 0..MaxOptions } :
        initArgs' = DefaultResult(res, opts, overflowChecks)
    /\ cpc' = "args"
    /\ UNCHANGED <<value, contents, decoded, overflowChecks, jstring, region, written, unit, charBack>>
    /\ UNCHANGED <<protoVars, extVars>>

ArgsNext == InitArgsDefault

ArgsSpec == ArgsInit /\ [][ArgsNext]_vars

-----------------------------------------------------------------------------
(* set_char_array, get_char_array *)

\* the chars given to set_char_array: a dense range, the sample chars, and
\* chars whose low 16 bits are a surrogate or zero
CharInputs ==
    { v \in (0..MaxCharDense) \cup SampleChars \cup { \h1D800, \h1DFFF, \h20000 } : IsChar(v) }

\* <jchar as JPrimitive>::from(val): `val as Self`, a cast of char to u16
JcharFrom(c) == c % 65536

\* <jchar as JPrimitive>::repr(&self): char::from_u32(*self as u32).unwrap()
JcharRepr(u) ==
    IF IsChar(u) THEN [kind |-> "Ok", char |-> u] ELSE [kind |-> "Panic", char |-> 0]

CharInit ==
    /\ ProtoIdle
    /\ attached = FALSE
    /\ ScopeIdle
    /\ ThreadIdle
    /\ \E c \in CharInputs : value = <<c>>
    /\ contents = <<>>
    /\ decoded = NoResult
    /\ overflowChecks = FALSE
    /\ cpc = "char_start"
    /\ SideIdle

\* JavaEnv::set_char_array(arr, n, val, cap)
SetCharArray ==
    /\ cpc = "char_start"
    /\ unit' = JcharFrom(value[1])
    /\ cpc' = "char_set"
    /\ UNCHANGED <<value, contents, decoded, overflowChecks, jstring, region, written, initArgs, charBack>>
    /\ UNCHANGED <<protoVars, extVars>>

\* JavaEnv::get_char_array(arr, n, cap) on the element that was set
GetCharArray ==
    /\ cpc = "char_set"
    /\ charBack' = JcharRepr(unit)
    /\ cpc' = "char_got"
    /\ UNCHANGED <<value, contents, decoded, overflowChecks, jstring, region, written, initArgs, unit>>
    /\ UNCHANGED <<protoVars, extVars>>

CharNext == SetCharArray \/ GetCharArray

CharSpec == CharInit /\ [][CharNext]_vars

-----------------------------------------------------------------------------
(* Claims about the token protocol (Spec) *)

\* C1: once a foreign call has raised an exception, no exception-sensitive
\* foreign call (one whose wrapper requires a Capability, owned or borrowed)
\* reaches the runtime until the exception has been cleared: every sensitive
\* call an operation issues is issued with no exception pending.
C1_NoSensitiveCallWhilePending ==
    \A i \in 1..Len(calls) : Sensitive(calls[i].fn) => ~calls[i].pending

\* the operations of the layer that work on a binding which stays alive
BindingOps(op) == op \notin {"none", "drop_token", "drop_env"}

\* C2: exactly one capability token (a Capability or an Exception) is alive
\* for each environment binding, and no operation duplicates a token or
\* consumes one without handing one back: from a state with one token per
\* binding, every operation of the layer leads to a state with one token per
\* binding.
C2_ExactlyOneTokenPerBinding ==
    [][ (/\ tokens.caps + tokens.excs = Cardinality(AliveEnvs)
         /\ BindingOps(ret'.op))
        => tokens'.caps + tokens'.excs = Cardinality(AliveEnvs') ]_vars

\* C3: every wrapper around a foreign call that can raise an exception hands
\* back exactly one token, for every outcome of the call: a result with a fresh
\* Capability, or an Exception and no handle.
C3_MayThrowHandsBackOneToken ==
    ret.op \in MayThrowOps =>
        /\ ret.caps + ret.excs = 1
        /\ ret.excs = 1 => ret.handle = NoHandle

\* the foreign calls of the last operation that answered a reference
PtrCalls == {k \in 1..Len(calls) : calls[k].code = "ptr"}

LastOf(S) == CHOOSE x \in S : \A y \in S : y <= x

\* C4: for find_class, define_class, alloc_object, new_string, the new_*_array
\* family, get_object_array and local / global / weak, a null foreign result
\* yields an Exception token and no handle, a non-null result yields a handle
\* on that pointer together with a Capability; no handle wraps a null pointer.
C4_NullYieldsException ==
    /\ (ret.op \in HandleOps /\ PtrCalls # {}) =>
        LET answer == calls[LastOf(PtrCalls)].ptr IN
        /\ answer = 0 =>
              /\ ret.kind = "Err"
              /\ ret.handle = NoHandle
              /\ ret.excs = 1 /\ ret.caps = 0
        /\ answer # 0 =>
              /\ ret.kind = "Ok"
              /\ ret.handle.rtype # "None" /\ ret.handle.ptr = answer
              /\ ret.caps = 1 /\ ret.excs = 0
    /\ \A h \in LiveHandles : h.ptr # 0

\* find_class answered NULL for a missing class and returned Err(Exception)
C4_Witness ==
    /\ ret.op = "find_class"
    /\ calls = <<Call("FindClass", FALSE, "ptr", 0)>>
    /\ ret.kind = "Err" /\ ret.excs = 1
    /\ pending

-----------------------------------------------------------------------------
(* Claims about the codec (CodecSpec) *)

Encoded == cpc \in {"encoded", "decoded"}

\* C5: for every string of scalar values in 1..0x10FFFF outside the surrogate
\* range, JavaChars::new followed by to_string returns Some of the original
\* text.
C5_RoundTrip ==
    (cpc = "decoded" /\ \A k \in 1..Len(value) : value[k] >= 1)
        => decoded = Some(Utf8Str(value))

\* the six bytes the encoding table gives for a supplementary scalar value
SixBytes(v) ==
    LET s == v - 65536 IN
    << \hED,
       BitOr(\hA0, Shr(s, 16)),
       BitOr(\h80, BitAnd(Shr(s, 10), \h3F)),
       \hED,
       BitOr(\hB0, BitAnd(Shr(s, 6), \h0F)),
       BitOr(\h80, BitAnd(s, \h3F)) >>

\* C6: for every scalar value v in 0x10000..0x10FFFF, JavaChars::new emits
\* exactly the six bytes ED, A0|(s>>16), 80|((s>>10)&3F), ED, B0|((s>>6)&0F),
\* 80|(s&3F), with s = v - 0x10000.
C6_SupplementarySixBytes ==
    (Encoded /\ Len(value) = 1 /\ value[1] >= 65536)
        => contents = SixBytes(value[1]) \o <<0>>

\* the bytes of the encoding table for a scalar value up to 0xFFFF
TableBytes(v) ==
    IF v = 0 THEN << \hC0, \h80 >>
    ELSE IF v <= \h7F THEN << v >>
    ELSE IF v <= \h7FF THEN << BitOr(\hC0, Shr(v, 6)), BitOr(\h80, BitAnd(v, \h3F)) >>
    ELSE << BitOr(\hE0, Shr(v, 12)),
            BitOr(\h80, BitAnd(Shr(v, 6), \h3F)),
            BitOr(\h80, BitAnd(v, \h3F)) >>

RECURSIVE TableStr(_)
TableStr(s) == IF s = <<>> THEN <<>> ELSE TableBytes(Head(s)) \o TableStr(Tail(s))

\* C7: for scalar values in 0..0xFFFF outside the surrogate range,
\* JavaChars::new emits the bytes of the encoding table (C0 80 for 0, one byte
\* for 1..0x7F, two for 0x80..0x7FF, three for 0x800..0xFFFF), and for values
\* >= 1 these are the bytes of standard UTF-8.
C7_BmpEncodingTable ==
    (Encoded /\ \A k \in 1..Len(value) : value[k] <= 65535) =>
        /\ contents = TableStr(value) \o <<0>>
        /\ (\A k \in 1..Len(value) : value[k] >= 1)
              => contents = Utf8Str(value) \o <<0>>

\* "\0\u{FFFF}" was encoded as C0 80 EF BF BF 00
C7_Witness ==
    /\ cpc = "encoded"
    /\ value = <<0, 65535>>
    /\ contents = <<192, 128, 239, 191, 191, 0>>

\* C8: for every input string, also one containing U+0000, the buffer ends
\* with one 0x00 byte and holds no other 0x00 byte.
C8_SingleTerminator ==
    Encoded =>
        /\ Len(contents) >= 1
        /\ contents[Len(contents)] = 0
        /\ \A k \in 1..(Len(contents) - 1) : contents[k] # 0

\* a string holding U+0000 and a supplementary char was encoded
C8_Witness ==
    /\ cpc = "encoded"
    /\ value = <<0, 65536>>
    /\ Len(contents) = 10

\* C9: encoding a string containing U+0000 and decoding the buffer yields the
\* NUL scalar at the same position and the characters after it: the decoded
\* text is the original text.
C9_NulDoesNotEndString ==
    (cpc = "decoded" /\ \E k \in 1..Len(value) : value[k] = 0)
        => decoded = Some(Utf8Str(value))

\* C10: JavaChars::new("") yields the one byte 0x00, and to_string of a
\* buffer holding only 0x00 yields Some of the empty string.
C10_EmptyString ==
    /\ (Encoded /\ value = <<>>) => contents = <<0>>
    /\ (cpc = "decoded" /\ contents = <<0>>) => decoded = Some(<<>>)

\* the empty string was encoded and the buffer decoded
C10_Witness ==
    /\ cpc = "decoded"
    /\ value = <<>>
    /\ contents = <<0>>
    /\ decoded.kind = "Some"

-----------------------------------------------------------------------------
(* Claims about the decoder on arbitrary buffers (DecodeSpec) *)

RawDecoded == cpc = "raw_decoded"

\* the byte at 1-based position k, or -1 past the end
ByteAt(c, k) == IF k >= 1 /\ k <= Len(c) THEN c[k] ELSE -1

Continuation(b) == b >= \h80 /\ b <= \hBF

\* c, from position k on, is a run of rows of the encoding table followed by
\* the terminator: what an encoder following the table emits for some string
RECURSIVE IsTableOutput(_, _)
IsTableOutput(c, k) ==
    LET b == ByteAt(c, k)
        b1 == ByteAt(c, k + 1)
        b2 == ByteAt(c, k + 2)
    IN
    IF b = 0 THEN k = Len(c)
    ELSE IF b >= \h01 /\ b <= \h7F THEN IsTableOutput(c, k + 1)
    ELSE IF b = \hC0 THEN b1 = \h80 /\ IsTableOutput(c, k + 2)
    ELSE IF b >= \hC2 /\ b <= \hDF THEN Continuation(b1) /\ IsTableOutput(c, k + 2)
    ELSE IF b = \hE0 THEN
        b1 >= \hA0 /\ b1 <= \hBF /\ Continuation(b2) /\ IsTableOutput(c, k + 3)
    ELSE IF b = \hED THEN
        \/ b1 >= \h80 /\ b1 <= \h9F /\ Continuation(b2) /\ IsTableOutput(c, k + 3)
        \/ /\ b1 >= \hA0 /\ b1 <= \hAF /\ Continuation(b2)
           /\ ByteAt(c, k + 3) = \hED
           /\ ByteAt(c, k + 4) >= \hB0 /\ ByteAt(c, k + 4) <= \hBF
           /\ Continuation(ByteAt(c, k + 5))
           /\ IsTableOutput(c, k + 6)
    ELSE IF b >= \hE1 /\ b <= \hEF THEN
        Continuation(b1) /\ Continuation(b2) /\ IsTableOutput(c, k + 3)
    ELSE FALSE

\* C11: for every NUL-terminated buffer that is not the output of the encoder
\* for some string (overlong forms such as C1 80, C0 followed by a byte other
\* than 80, broken surrogate halves, stray continuation bytes), to_string
\* fails: it does not return Some text.
C11_MalformedFails ==
    (RawDecoded /\ ~IsTableOutput(contents, 1)) => decoded.kind # "Some"

\* the position of the first byte that is not a one-byte character
RECURSIVE FirstLead(_, _)
FirstLead(c, k) ==
    IF ByteAt(c, k) >= \h01 /\ ByteAt(c, k) <= \h7F THEN FirstLead(c, k + 1) ELSE k

\* C12: for every buffer in which lead byte 0xED is followed by a byte whose
\* top three bits are 101 and whose 0x10 bit is set (0xB0..0xBF), to_string
\* returns None and never a decoded scalar.
C12_InvalidSurrogateIsNone ==
    LET k == FirstLead(contents, 1) IN
    (/\ RawDecoded
     /\ ByteAt(contents, k) = \hED
     /\ ByteAt(contents, k + 1) >= \hB0 /\ ByteAt(contents, k + 1) <= \hBF)
        => decoded = None

\* to_string of ED B0 80 ED B0 80 00 returned None
C12_Witness ==
    /\ RawDecoded
    /\ contents = << \hED, \hB0, \h80, \hED, \hB0, \h80, 0 >>
    /\ decoded = None

\* C13: in the surrogate branch of to_string, a high-surrogate group
\* (ED A0..AF xx) that is not followed by a second 0xED lead byte and then a
\* byte in 0xB0..0xBF yields None: no other byte is accepted in either place.
C13_LowSurrogateChecked ==
    (/\ RawDecoded
     /\ Len(contents) = 7
     /\ contents[1] = \hED
     /\ contents[2] >= \hA0 /\ contents[2] <= \hAF
     /\ ~(contents[4] = \hED /\ contents[5] >= \hB0 /\ contents[5] <= \hBF))
        => decoded = None

\* the scalar value a well-formed six-byte surrogate pair stands for
PairValue(c) ==
    65536 + (c[2] - \hA0) * 65536 + (c[3] - \h80) * 1024
          + (c[5] - \hB0) * 64 + (c[6] - \h80)

\* C14: for every supplementary scalar value v, to_string of the well-formed
\* six-byte surrogate-pair encoding of v (ED A0..AF xx ED B0..BF xx) returns
\* the four-byte UTF-8 sequence of v.
C14_PairDecodesToUtf8 ==
    (/\ RawDecoded
     /\ Len(contents) = 7
     /\ IsTableOutput(contents, 1)
     /\ contents[1] = \hED /\ contents[2] >= \hA0
     /\ contents = SixBytes(PairValue(contents)) \o <<0>>)
        => decoded = Some(Utf8Char(PairValue(contents)))

\* C15: for every buffer whose last byte is 0x00, to_string returns Some(text)
\* or None: it never aborts and never reads past the end of the buffer.
C15_NeverAborts ==
    (RawDecoded /\ contents[Len(contents)] = 0) => decoded.kind \in {"Some", "None"}

-----------------------------------------------------------------------------
(* Claims about exceptions and the life of a binding (Spec) *)

\* the last operation issued the foreign call fn
Issued(cs, fn) == \E i \in 1..Len(cs) : cs[i].fn = fn

\* C16: once an exception is pending (find_class failed), exception_check
\* reports pending on every call, and the exception stays pending until
\* ExceptionClear is called; exception_clear consumes the Exception token and
\* returns a Capability, after which nothing is pending and exception_check
\* reports clear.
C16_PendingUntilClear ==
    /\ [](ret.op = "exception_check" =>
            /\ (ret.kind = "Err") = pending
            /\ ret.caps + ret.excs = 1
            /\ (ret.excs = 1) = pending)
    /\ [](ret.op = "exception_clear" =>
            ~pending /\ ret.kind = "Ok" /\ ret.caps = 1 /\ ret.excs = 0)
    /\ [][ (pending /\ ~pending') => Issued(calls', "ExceptionClear") ]_vars
    /\ [][ ret'.op = "exception_clear" =>
            /\ tokens'.excs = tokens.excs - 1
            /\ tokens'.caps = tokens.caps + 1 ]_vars

\* C17: throw and throw_new consume the Capability and, for every outcome of
\* the foreign call, hand back an Exception token with the success-or-error
\* indication: the caller holds a token afterwards.
C17_ThrowHandsBackException ==
    ret.op \in {"throw", "throw_new"} => ret.excs = 1

\* the attach functions get_env / get_env_daemon pass to get_env_gen
AttachFns == { "AttachCurrentThread", "AttachCurrentThreadAsDaemon" }

\* C18: get_env and get_env_daemon issue an attach call only when GetEnv
\* reports the thread as detached, and the new binding owes detachment in
\* exactly that case; on an attached thread no attach call is issued and the
\* binding owes no detachment.
C18_AttachOnlyWhenDetached ==
    [][ ret'.op \in {"get_env", "get_env_daemon"} =>
          LET detached == calls'[1].code = "JNI_EDETACHED" IN
          /\ calls'[1].fn = "GetEnv"
          /\ (Len(calls') = 2) = detached
          /\ Len(calls') \in {1, 2}
          /\ detached => calls'[2].fn \in AttachFns
          /\ \A e \in AliveEnvs' \ AliveEnvs : envs'[e].detach = detached
          /\ attached =>
                /\ Len(calls') = 1
                /\ \A e \in AliveEnvs' \ AliveEnvs : ~envs'[e].detach
          /\ (ret'.kind = "Ok") = (AliveEnvs' # AliveEnvs) ]_vars

\* get_env on a detached thread attached it and returned a binding that owes
\* detachment
C18_Witness ==
    /\ ret.op = "get_env"
    /\ calls = <<Call("GetEnv", FALSE, "JNI_EDETACHED", 0),
                 Call("AttachCurrentThread", FALSE, "JNI_OK", 0)>>
    /\ ret.kind = "Ok"
    /\ attached
    /\ envs[1] = [state |-> "alive", detach |-> TRUE]

\* C19: a binding destroyed while an exception is pending calls
\* ExceptionDescribe, then ExceptionClear, then aborts, and issues no
\* DetachCurrentThread; no DetachCurrentThread is ever issued while an
\* exception is pending.
C19_NoDetachWhilePending ==
    /\ (ret.op = "drop_env" /\ calls[1].code = "JNI_TRUE") =>
          /\ [i \in 1..Len(calls) |-> calls[i].fn]
                = <<"ExceptionCheck", "ExceptionDescribe", "ExceptionClear">>
          /\ panicked
          /\ ret.kind \in {"Panic", "Abort"}
    /\ \A i \in 1..Len(calls) :
          calls[i].fn = "DetachCurrentThread" => ~calls[i].pending

\* a binding that owed detachment was destroyed with an exception pending
C19_Witness ==
    /\ ret.op = "drop_env"
    /\ Len(calls) = 3
    /\ calls[3] = Call("ExceptionClear", TRUE, "void", 0)
    /\ panicked
    /\ attached
    /\ AliveEnvs = {}

\* the DetachCurrentThread calls among cs
Detaches(cs) == { i \in 1..Len(cs) : cs[i].fn = "DetachCurrentThread" }

\* C20: destroying a binding issues DetachCurrentThread only if the creation
\* of that binding performed the attach, and at most once; a binding that
\* reused an existing attachment never detaches the thread, and nothing but
\* the destruction of a binding detaches.
C20_DetachOnlyIfAttached ==
    [][ Detaches(calls') # {} =>
          /\ ret'.op = "drop_env"
          /\ Cardinality(Detaches(calls')) = 1
          /\ \E e \in AliveEnvs \ AliveEnvs' : envs[e].detach ]_vars

\* a binding that attached the thread was destroyed and detached it
C20_Witness ==
    /\ ret.op = "drop_env"
    /\ ret.kind = "Unit"
    /\ calls = <<Call("ExceptionCheck", FALSE, "JNI_FALSE", 0),
                 Call("GetJavaVM", FALSE, "JNI_OK", 0),
                 Call("DetachCurrentThread", FALSE, "JNI_OK", 0)>>
    /\ ~attached

-----------------------------------------------------------------------------
(* Claims about reference classes and release (Spec) *)

\* the reference class each release wrapper is for
ReleaseClass ==
    [ delete_local_ref |-> "Local", delete_global_ref |-> "Global",
      delete_weak_ref |-> "Weak" ]

\* C21: delete_local_ref, delete_global_ref and delete_weak_ref, invoked on a
\* handle whose reference class is not the one the operation releases, fail
\* an assertion before any foreign call is issued: no release call reaches
\* the runtime and the call does not return normally.
C21_WrongClassAsserts ==
    ret.op \in DOMAIN ReleaseClass =>
        IF ret.handle.rtype # ReleaseClass[ret.op]
        THEN calls = <<>> /\ panicked /\ ret.kind = "Panic"
        ELSE calls = <<Call(DeleteFn(ret.handle.rtype), pending, "void", 0)>>

\* delete_global_ref was invoked on a Local handle and panicked
C21_Witness ==
    /\ ret.op = "delete_global_ref"
    /\ ret.handle.rtype = "Local"
    /\ calls = <<>>
    /\ panicked

\* the release function of each reference class
ReleaseFn ==
    [ Local |-> "DeleteLocalRef", Global |-> "DeleteGlobalRef",
      Weak |-> "DeleteWeakGlobalRef" ]

\* the reference class of the handles an operation creates
CreatedClass(op) ==
    IF op = "global" THEN "Global" ELSE IF op = "weak" THEN "Weak" ELSE "Local"

\* C22: every handle carries one reference class, set when it is created
\* (Local from the constructors and local(), Global from global(), Weak from
\* weak()) and changed by no operation; the release call issued when the
\* handle is destroyed is the one for that class.
C22_ReferenceClassFixed ==
    [][ /\ \A h \in LiveHandles' :
              CopiesIn(h, handles') > CopiesIn(h, handles)
                  => h.rtype = CreatedClass(ret'.op)
        /\ ret'.op # "drop_handle" => handles \sqsubseteq handles'
        /\ ret'.op = "drop_handle" =>
              \E h \in LiveHandles :
                  /\ handles' = handles (-) SetToBag({h})
                  /\ \A i \in 1..Len(calls') :
                        calls'[i].fn # "ExceptionCheck"
                            => calls'[i].fn = ReleaseFn[h.rtype] ]_vars

\* a Weak handle was destroyed and DeleteWeakGlobalRef was issued
C22_Witness ==
    /\ ret.op = "drop_handle"
    /\ calls = <<Call("ExceptionCheck", FALSE, "JNI_FALSE", 0),
                 Call("DeleteWeakGlobalRef", FALSE, "void", 0)>>

\* C24: every handle's foreign reference is released when the handle goes out
\* of scope, on every exit path: normal exit, early return, and error
\* propagation with an Exception token in hand (an exception pending).
C24_ReleasedOnEveryPath ==
    ret.op = "drop_handle" =>
        \E i \in 1..Len(calls) : calls[i].fn \in
            { "DeleteLocalRef", "DeleteGlobalRef", "DeleteWeakGlobalRef" }

-----------------------------------------------------------------------------
(* Claims about error codes and read-only operations (Spec) *)

\* the codes by which a foreign call reports an error
NonOkCodes == { "JNI_ERR", "JNI_EVERSION" }

\* C26: every non-OK error code a foreign call reports (GetEnv, attach,
\* GetJavaVM, DetachCurrentThread, Throw, ...) is returned to the caller as an
\* error value, and none of them makes the layer panic.
C26_ErrorsAreReturned ==
    (\E i \in 1..Len(calls) : calls[i].code \in NonOkCodes)
        => ret.kind = "Err" /\ ~panicked

\* C29: when GetEnv reports a code other than OK or EDETACHED, or the attach
\* call reports a non-OK code, get_env returns that code as an error (the code
\* of the call that failed, the attach call's after EDETACHED), creates no
\* binding and no token, attaches nothing that stays attached on its account,
\* and no detachment is owed for that call.
C29_FailedGetEnvCreatesNothing ==
    [][ (/\ ret'.op \in {"get_env", "get_env_daemon"}
         /\ calls'[Len(calls')].code # "JNI_OK")
          => /\ ret'.kind = "Err"
             /\ ret'.code = calls'[Len(calls')].code
             /\ ret'.caps = 0 /\ ret'.excs = 0
             /\ envs' = envs
             /\ tokens' = tokens
             /\ attached' = attached
             /\ calls'[1].code # "JNI_EDETACHED" => Len(calls') = 1 ]_vars

\* get_env on a detached thread whose attach call failed
C29_Witness ==
    /\ ret.op = "get_env"
    /\ calls = <<Call("GetEnv", FALSE, "JNI_EDETACHED", 0),
                 Call("AttachCurrentThread", FALSE, "JNI_ERR", 0)>>
    /\ ret.kind = "Err"
    /\ ret.code = "JNI_ERR"
    /\ AliveEnvs = {}
    /\ tokens = NoTokens
    /\ ~attached

\* operations that only borrow a token
ReadOnlyOps ==
    { "exception_describe", "is_same_object", "is_instance_of",
      "is_assignable_from", "is_null", "get_object_class", "string_len",
      "array_length" }

\* C30: read-only operations change neither the exception state nor the live
\* tokens: exception_describe with a borrowed Exception leaves the exception
\* pending, and the queries with a borrowed Capability leave the exception
\* state as it was and the Capability with the caller.
C30_ReadOnlyOpsChangeNothing ==
    [][ ret'.op \in ReadOnlyOps =>
          /\ pending' = pending
          /\ tokens' = tokens
          /\ ret'.caps = 0 /\ ret'.excs = 0
          /\ IF ret'.op = "exception_describe"
             THEN tokens'.excs > 0
             ELSE tokens'.caps > 0 ]_vars

-----------------------------------------------------------------------------
(* Claims about monitors and local frames (ScopeSpec) *)

\* C23: every successful monitor acquisition through JavaMonitor is followed
\* by exactly one MonitorExit on the same object when the guard goes out of
\* scope, on every exit path, the one with a pending exception included.
C23_GuardAlwaysExits ==
    ret.op = "drop_monitor" =>
        Cardinality({k \in 1..Len(calls) :
                        calls[k].fn = "MonitorExit" /\ calls[k].ptr = ret.handle.ptr}) = 1

\* foreign functions that are given a reference held by a handle
ReferenceFns == { "DeleteLocalRef", "MonitorEnter", "MonitorExit", "PopLocalFrame" }

\* C28: no local handle is used or released after the local frame its
\* reference was made in has been popped: no foreign call is issued on a
\* reference whose frame is gone.
C28_NoCallOnPoppedReference ==
    [][ \A k \in 1..Len(calls') :
            (calls'[k].fn \in ReferenceFns /\ calls'[k].ptr \in LiveLocals)
                => ~locals[calls'[k].ptr].gone ]_vars

-----------------------------------------------------------------------------
(* Claims about the runtime and the threads that share it (VmSpec, ThreadSpec) *)

\* C25: destruction of the runtime is the last operation on it: once
\* DestroyJavaVM has been issued, no binding of that runtime is alive and no
\* foreign call is issued on it, whichever JavaVM handle the bindings came from.
C25_DestroyIsLast ==
    destroyed =>
        /\ LiveBindings = {}
        /\ \A k \in 1..Len(tcalls) :
              tcalls[k].fn # "JNI_GetCreatedJavaVMs" => ~tcalls[k].dead

\* every foreign call through a binding is issued by the thread that made it
CallsByCreator ==
    \A k \in 1..Len(tcalls) : tcalls[k].owner # 0 => tcalls[k].thread = tcalls[k].owner

\* an operation changes the attachment of the thread that runs it, at most
OwnAttachmentOnly ==
    \A u \in Threads :
        ((u \in tattached') # (u \in tattached))
            => (tcalls' # <<>> /\ \A k \in 1..Len(tcalls') : tcalls'[k].thread = u)

\* C27: for every interleaving of threads that take a binding from
\* one shared JavaVM, use it and destroy it, every foreign call through a
\* binding is issued by the thread that made it, one thread's attach or detach
\* never changes another thread's attachment, and once all bindings are
\* destroyed the attached threads are those attached before.
C27_ThreadsConfined ==
    /\ []CallsByCreator
    /\ [][OwnAttachmentOnly]_vars
    /\ [](LiveBindings = {} => tattached = tinitial)

-----------------------------------------------------------------------------
(* Claims about Exception tokens (Spec) *)

\* C31: whenever an Exception token is alive, an exception is pending in the
\* runtime on that thread: the token is issued only by a call after which an
\* exception is pending, and none survives exception_clear.
C31_ExceptionTokenMeansPending ==
    (~panicked /\ tokens.excs > 0) => pending

-----------------------------------------------------------------------------
(* Claims about the release of references (ScopeSpec) *)

\* operations that hand a handle of a local reference to the caller
HandleReturningOps == { "find_class", "pop_local_frame", "as_jobject" }

\* C32: no foreign reference is released more than once, and no handle is
\* returned whose reference has already been released; the JavaObject that
\* as_jobject returns holds a reference that is still live.
C32_ReturnedHandleIsLive ==
    (ret.op \in HandleReturningOps /\ ret.kind = "Ok")
        => ~locals[ret.handle.ptr].gone

-----------------------------------------------------------------------------
(* Claims about detachment with several bindings on one thread (Spec) *)

\* C33: a thread is never detached while another binding of the same thread
\* is still alive: when a binding is destroyed and DetachCurrentThread is
\* issued, no other binding of the thread remains.
C33_NoDetachWhileBindingAlive ==
    (ret.op = "drop_env" /\ \E i \in 1..Len(calls) : calls[i].fn = "DetachCurrentThread")
        => AliveEnvs = {}

-----------------------------------------------------------------------------
(* Claims about the u8 arithmetic of to_string (DecodeSpec) *)

\* C34: every u8 computation in to_string stays within 0..255: for every
\* next_char that reaches the line, high_byte = 0xF1 + (next_char >> 2) does
\* not exceed 0xFF.
C34_HighByteFitsInU8 ==
    LET k == FirstLead(contents, 1)
        next_char == ByteAt(contents, k + 1) IN
    (/\ RawDecoded
     /\ ByteAt(contents, k) = \hED
     /\ next_char >= 0
     /\ BitAnd(next_char, \hE0) = \hA0
     /\ ~InvalidSurrogate(next_char))
        => HighByteSum(next_char) <= 255

-----------------------------------------------------------------------------
(* Claims about the JavaVM handles of one runtime (VmSpec) *)

\* the DestroyJavaVM calls among cs
Destroys(cs) == {k \in 1..Len(cs) : cs[k].fn = "DestroyJavaVM"}

\* C35: the JavaVM built by a successful JavaVM::new issues DestroyJavaVM
\* exactly once, when it goes out of scope; DestroyJavaVM is never issued
\* twice for one runtime, never by a handle from JavaVM::from or
\* JavaVM::created, and never for a JavaVM::new that returned an error.
C35_DestroyOnceByOwner ==
    [][ /\ Cardinality(Destroys(tcalls')) <= 1
        /\ Destroys(tcalls') # {} =>
              /\ ~destroyed
              /\ CopiesIn(VmHandle(TRUE), vms) = 1
              /\ CopiesIn(VmHandle(TRUE), vms') = 0
              /\ CopiesIn(VmHandle(FALSE), vms') = CopiesIn(VmHandle(FALSE), vms)
        /\ CopiesIn(VmHandle(TRUE), vms') < CopiesIn(VmHandle(TRUE), vms)
              => Destroys(tcalls') # {}
        /\ CopiesIn(VmHandle(TRUE), vms') <= CopiesIn(VmHandle(TRUE), vms) ]_vars

\* the owning handle went out of scope and destroyed the runtime while a
\* handle from JavaVM::created was alive
C35_Witness ==
    /\ destroyed
    /\ Cardinality(Destroys(tcalls)) = 1
    /\ CopiesIn(VmHandle(TRUE), vms) = 0
    /\ CopiesIn(VmHandle(FALSE), vms) = 1

\* C36: JavaVM::from and JavaVM::created leave the calling thread's runtime
\* state unchanged: it is attached after the call iff it was before, and an
\* exception is pending after the call iff one was before.
C36_CreatedLeavesThreadAlone ==
    [][ (\/ tcalls' # <<>> /\ tcalls'[1].fn = "JNI_GetCreatedJavaVMs"
         \/ CopiesIn(VmHandle(FALSE), vms') > CopiesIn(VmHandle(FALSE), vms))
          => (tattached' = tattached /\ tpending' = tpending) ]_vars

-----------------------------------------------------------------------------
(* Claims about values that cross the boundary (RegionSpec, ArgsSpec, CharSpec) *)

\* C37: for every string content and every (start, length), the bytes the
\* runtime writes for get_string_region fit in the length + 1 bytes that are
\* allocated, and the 0x00 written at index length follows the last written
\* byte: the buffer returned is all the bytes of the requested chars and the
\* terminator.
C37_RegionFitsBuffer ==
    cpc \in {"region", "region_decoded"} =>
        /\ Len(written) + 1 <= region.length + 1
        /\ contents = written \o <<0>>

\* C38: every Err(JniError) a public operation returns carries a code other
\* than JNI_OK; JavaVMInitArgs::default never reports a failure with the
\* success code.
C38_ErrIsNeverOk ==
    (cpc = "args" /\ initArgs.kind = "Err") => initArgs.code # "JNI_OK"

\* C39: for every char c, converting c to jchar and back, as set_char_array
\* and get_char_array do, returns c, and neither conversion panics.
C39_CharRoundTrip ==
    cpc = "char_got" => charBack = [kind |-> "Ok", char |-> value[1]]

====
